---- MODULE Spec2Model ----
(***************************************************************************)
(* A model of the trust-and-lifecycle spine of the RansomEye core:         *)
(*   - EventSigner (edge/agent/linux/agent/security/signing.rs)           *)
(*   - the immutable audit chain (core/engine/orchestrator/src/db.rs)     *)
(*   - the retention enforcer (.../orchestrator/src/retention_enforcer.rs)*)
(*   - the orchestrator lifecycle (.../orchestrator/src/lib.rs, main.rs)  *)
(*   - the HTTP ingestion handlers (core/ingest/src/http_server.rs)       *)
(*   - the deception deployer and teardown engine (core/deception/src)    *)
(*   - the authoritative schema manager (.../orchestrator/src/db.rs)      *)
(*   - the deception asset registry (core/deception/src/registry.rs)      *)
(*   - the deception signals (core/deception/src/signals.rs, security.rs) *)
(* Each subsystem has its own variables, actions and specification; the   *)
(* variables of the other subsystems stay at their initial values.        *)
(***************************************************************************)
EXTENDS Integers, Sequences, FiniteSets, TLC

VARIABLES
    \* ---- EventSigner ----
    sequence,       \* EventSigner.sequence (AtomicU64)
    signPc,         \* per thread: "idle" | "signing" (between fetch_add and return)
    signSeq,        \* per thread: the local `seq` of the call in progress
    signData,       \* per thread: the `data` argument of the call in progress
    issued,         \* history: the values fetch_add handed out, in the order it did
    signedOut       \* history: the (message, signature) pairs sign() returned

signerVars == <<sequence, signPc, signSeq, signData, issued, signedOut>>

VARIABLES
    \* ---- immutable_audit_log ----
    auditLog,       \* the rows of immutable_audit_log, in insertion order
    auditClock,     \* the database clock that stamps created_at
    audPc,          \* per caller: "idle" | "fetched" (between read-last and INSERT)
    audArgs,        \* per caller: the action and payload_json of the call
    audPrev         \* per caller: what fetch_last_audit_chain returned

auditDbVars == <<auditLog, auditClock>>

auditCallVars == <<audPc, audArgs, audPrev>>

auditVars == <<auditDbVars, auditCallVars>>

VARIABLES
    \* ---- retention enforcer ----
    retPolicies,    \* the rows of ransomeye.retention_policies
    retCatalog,     \* tables carrying a prevent_update_delete trigger (pg_trigger)
    retRows,        \* per existing table: the ages (days) of its rows, oldest first
    retCfg,         \* RetentionEnforcerConfig
    retPc,          \* "idle" | "table" | "deleting" | "done" | "failed"
    retDryRun,      \* the dry_run argument of enforce
    retAppendOnly,  \* enforce's local `append_only`
    retQueue,       \* the policies enforce has still to process, in order
    retCur,         \* the table enforce_one_table is working on: its loop state
    retResults,     \* enforce's local `results`
    retError,       \* the Err enforce returned ("" while none)
    retDeletes      \* history: the DELETE statements issued, in order

retDbVars == <<retPolicies, retCatalog, retRows>>

retRunVars == <<retCfg, retPc, retDryRun, retAppendOnly, retQueue, retCur,
                retResults, retError, retDeletes>>

retVars == <<retDbVars, retRunVars>>

VARIABLES
    \* ---- orchestrator ----
    current_state,  \* Orchestrator.current_state (OrchestratorState)
    state,          \* Orchestrator.state (AtomicBool): the running flag
    kernel,         \* Orchestrator.kernel: "none" | "some"
    policy_engine,  \* Orchestrator.policy_engine: "none" | "some"
    bus_client,     \* Orchestrator.bus_client: "none" | "some"
    db,             \* Orchestrator.db: "none" | "some"
    component_db_id,\* Orchestrator.component_db_id: "none" | "some"
    dry_run,        \* Orchestrator.dry_run (RANSOMEYE_DRY_RUN = "1")
    orchPc,         \* where main / run / startup / shutdown stands
    orchErr,        \* the Err that run returned ("" while none)
    exitCode,       \* the code passed to process::exit (-1 while running)
    dbUp,           \* whether the database answers
    healthRows,     \* the rows of component_health
    startupRows,    \* the rows of startup_events
    errorRows,      \* the rows of error_events
    orchReturned,   \* history: the startup steps that returned, with Ok or Err
    orchStateLog,   \* history: the arguments of set_state, in order
    orchShutdownLog \* history: the shutdown steps taken, in order

orchObjVars == <<current_state, state, kernel, policy_engine, bus_client, db,
                 component_db_id, dry_run>>

orchDbVars == <<dbUp, healthRows, startupRows, errorRows>>

orchVars == <<orchObjVars, orchPc, orchErr, exitCode, orchDbVars, orchReturned,
              orchStateLog, orchShutdownLog>>

VARIABLES
    \* ---- HTTP ingestion server ----
    txn,          \* transaction status of the one database session
    dbCommitted,  \* the committed rows, per table
    dbWorking,    \* the rows as the session sees them (committed + uncommitted)
    reqPc,        \* per request: where its handler stands
    reqKind,      \* per request: "linux" (/ingest/linux) or "dpi" (/ingest/dpi)
    reqPayload,   \* per request: the SignedEvent it carries
    reqStatus,    \* per request: the HTTP status returned (0 while none)
    reqAgent,     \* per request: the handler's local agent_id
    reqLog        \* history, per request: the statements its handler issued

ingestDbVars == <<txn, dbCommitted, dbWorking>>

ingestReqVars == <<reqPc, reqKind, reqPayload, reqStatus, reqAgent, reqLog>>

ingestVars == <<ingestDbVars, ingestReqVars>>

VARIABLES
    \* ---- deception deployer and teardown engine ----
    assets,             \* DeceptionRegistry.assets: asset id -> loaded asset
    active_deployments, \* DeceptionDeployer.active_deployments: id -> state
    active_teardowns,   \* TeardownEngine.active_teardowns, by teardown id
    decNow,             \* Utc::now()
    depPc,              \* per deploy caller: "idle" or "store" (before the insert)
    depArg,             \* per deploy caller: its call in flight (number, id)
    depState,           \* per deploy caller: the metadata its deployment made
    depRet,             \* what the deploy_asset call that returned last returned
    depCalls,           \* history: deploy_asset calls made so far
    typeDeploys,        \* history: type-specific deployments done, per id
    tdMode,             \* the teardown entry point running ("idle" if none)
    tdArg,              \* the asset ids that call works through
    tdQueue,            \* the ids it has not come to yet
    tdDone,             \* its local teardown_results
    tdRet,              \* what the latest entry-point call returned
    tdCalls,            \* history: entry-point calls made so far
    tdAttempted,        \* history: the teardown_asset calls of this call, with
                        \* the teardown id each one started (0: none)
    tdStepFailed,       \* history: teardown ids whose step failed, this call
    expiredReturned     \* history: the ids check_expired has returned so far

deployerVars == <<active_deployments, depPc, depArg, depState, depRet,
                  depCalls, typeDeploys>>

teardownVars == <<active_teardowns, tdMode, tdArg, tdQueue, tdDone, tdRet,
                  tdCalls, tdAttempted, tdStepFailed, expiredReturned>>

deceptionVars == <<assets, decNow, deployerVars, teardownVars>>

VARIABLES
    \* ---- authoritative schema manager ----
    schFile,            \* the file at RANSOMEYE_SCHEMA_SQL_PATH, named by the
                        \* table blocks it lacks
    schTypes,           \* the types of schema ransomeye in the database
    schTables,          \* the tables of schema ransomeye in the database
    schHistory          \* history: the calls made, with what each one sent

schemaVars == <<schFile, schTypes, schTables, schHistory>>

VARIABLES
    \* ---- deception asset registry ----
    regDir,             \* the files of DECEPTION_ASSET_DIR
    regRet,             \* what the latest reload_assets returned, and the
                        \* entries read_dir gave it, in order
    regCalls            \* history: reload_assets calls made so far

registryVars == <<regDir, regRet, regCalls>>

VARIABLES
    \* ---- deception signals ----
    sigPc,              \* where the signal stands: "idle", "generated",
                        \* "failed", "received", "validated", "verified"
    sigCall,            \* the asset and interaction type given to generate_signal
    sigSignal,          \* the DeceptionSignal in hand
    sigAltered,         \* the field in which the consumer's copy differs
    sigChecks           \* what validate and verify_signal returned

signalVars == <<sigPc, sigCall, sigSignal, sigAltered, sigChecks>>

vars == <<signerVars, auditVars, retVars, orchVars, ingestVars, deceptionVars, schemaVars, registryVars, signalVars>>

notSigner == <<auditVars, retVars, orchVars, ingestVars, deceptionVars, schemaVars, registryVars, signalVars>>

notAudit == <<signerVars, retVars, orchVars, ingestVars, deceptionVars, schemaVars, registryVars, signalVars>>

\* The retention enforcer writes its run's audit record through the audit chain.
notRetention == <<signerVars, auditCallVars, orchVars, ingestVars, deceptionVars, schemaVars, registryVars, signalVars>>

\* The orchestrator writes audit records and runs the retention dry-run.
notOrchestrator == <<signerVars, auditCallVars, ingestVars, deceptionVars, schemaVars, registryVars, signalVars>>

notIngest == <<signerVars, auditVars, retVars, orchVars, deceptionVars, schemaVars, registryVars, signalVars>>

notDeception ==
    <<signerVars, auditVars, retVars, orchVars, ingestVars, schemaVars, registryVars, signalVars>>

notSchema ==
    <<signerVars, auditVars, retVars, orchVars, ingestVars, deceptionVars, registryVars, signalVars>>

\* A reload replaces the registry's map and touches nothing else.
notRegistry ==
    <<signerVars, auditVars, retVars, orchVars, ingestVars, schemaVars,
      decNow, deployerVars, teardownVars, signalVars>>

notSignals ==
    <<signerVars, auditVars, retVars, orchVars, ingestVars, deceptionVars,
      schemaVars, registryVars>>

(***************************************************************************)
(* Symbolic cryptography.  A value is a tree <<tag, children>>; SHA-256    *)
(* and Ed25519 are free constructors, so two hashes are equal exactly     *)
(* when their inputs are, and a signature verifies exactly for the key    *)
(* and message it was made with.                                          *)
(***************************************************************************)
Leaf(tag) == <<tag, <<>>>>

Sha256(input) == <<"sha256", <<input>>>>

Cat(a, b) == <<"cat", <<a, b>>>>

\* ======================================================================
\* EventSigner
\* ======================================================================
SignThreads == 2

MaxSignCalls == 4

SignerThreads == 1..SignThreads

\* The inputs `data` of sign(): short byte strings.
SignInputs == {<<7>>, <<7, 9>>}

\* u64::to_be_bytes for values below 2^31 (the high four bytes are zero).
ToBeBytes(n) ==
    <<0, 0, 0, 0, (n \div 16777216) % 256, (n \div 65536) % 256,
      (n \div 256) % 256, n % 256>>

\* A lost update: the counter is written back unchanged.
FetchAddStale(cur) == cur

\* AtomicU64::fetch_add(1): the value stored after the call.
FetchAdd(cur) == cur + 1

\* Ed25519 signing with the signer's key, symbolically.
Ed25519Sign(key, message) == [key |-> key, message |-> message]

\* signing.rs:78  let seq = self.sequence.fetch_add(1, AcqRel);
SignFetchAdd(t, d) ==
    /\ signPc[t] = "idle"
    /\ sequence < MaxSignCalls
    /\ signSeq' = [signSeq EXCEPT ![t] = sequence]
    /\ sequence' = FetchAdd(sequence)
    /\ issued' = Append(issued, sequence)
    /\ signData' = [signData EXCEPT ![t] = d]
    /\ signPc' = [signPc EXCEPT ![t] = "signing"]
    /\ UNCHANGED <<signedOut, notSigner>>

\* signing.rs:80-89  message = seq.to_be_bytes() || data; sign; Ok(base64)
SignFinish(t) ==
    /\ signPc[t] = "signing"
    /\ LET message == ToBeBytes(signSeq[t]) \o signData[t]
       IN signedOut' = Append(signedOut,
              [thread |-> t, seq |-> signSeq[t], message |-> message,
               signature |-> Ed25519Sign("signing_key", message)])
    /\ signPc' = [signPc EXCEPT ![t] = "idle"]
    /\ UNCHANGED <<sequence, signSeq, signData, issued, notSigner>>

\* signing.rs:122-124  EventSigner::sequence()
SignerSequence == sequence

SignerInit ==
    /\ sequence = 0
    /\ signPc = [t \in SignerThreads |-> "idle"]
    /\ signSeq = [t \in SignerThreads |-> 0]
    /\ signData = [t \in SignerThreads |-> <<>>]
    /\ issued = <<>>
    /\ signedOut = <<>>

SignerNext ==
    \/ \E t \in SignerThreads, d \in SignInputs : SignFetchAdd(t, d)
    \/ \E t \in SignerThreads : SignFinish(t)

\* ======================================================================
\* Immutable audit chain (CoreDb::insert_immutable_audit_log)
\* ======================================================================
AuditCallerCount == 2

MaxAuditRows == 3

AuditCallers == 1..AuditCallerCount

\* (action, payload_json) pairs the callers write.
AuditInputs ==
    { [action |-> "A1", payload |-> "P1"],
      [action |-> "A2", payload |-> "P2"] }

\* SQL NULL for prev_audit_id (audit ids start at 1) and for a hash column.
NullId == 0

NullHash == Leaf("NULL")

\* [0u8; 32]
Zero32 == Leaf("zero32")

\* serde_json::to_string(payload_json)
JsonToString(payload) == <<"json", <<Leaf(payload)>>>>

\* db.rs:629-636
sha256_bytes(input) == Sha256(input)

\* The operands of the chain hash in the wrong order.
ChainHashSwapped(prev_chain_hash, payload_sha256) ==
    sha256_bytes(Cat(payload_sha256, prev_chain_hash))

\* db.rs:683-687  chain hash = SHA256(prev_chain_hash || payload_sha256)
ChainHash(prev_chain_hash, payload_sha256) ==
    sha256_bytes(Cat(prev_chain_hash, payload_sha256))

\* db.rs:638-663  SELECT ... ORDER BY created_at DESC LIMIT 1, as the values
\* insert_immutable_audit_log derives from it (db.rs:678-681).
FetchLastAuditChain(log) ==
    IF Len(log) = 0
    THEN [prev_audit_id |-> NullId, prev_payload_sha256 |-> NullHash,
          prev_chain_hash |-> Zero32]
    ELSE LET last == CHOOSE i \in 1..Len(log) :
                         \A j \in 1..Len(log) : log[j].created_at <= log[i].created_at
         IN [prev_audit_id |-> log[last].audit_id,
             prev_payload_sha256 |-> log[last].payload_sha256,
             prev_chain_hash |-> log[last].chain_hash_sha256]

\* db.rs:693-720  the row the INSERT adds, given what was read before.
AuditRow(log, clock, args, prev) ==
    LET payload_sha256 == sha256_bytes(JsonToString(args.payload))
    IN [audit_id |-> Len(log) + 1,
        created_at |-> clock,
        action |-> args.action,
        payload_json |-> args.payload,
        payload_sha256 |-> payload_sha256,
        prev_audit_id |-> prev.prev_audit_id,
        prev_payload_sha256 |-> prev.prev_payload_sha256,
        chain_hash_sha256 |-> ChainHash(prev.prev_chain_hash, payload_sha256),
        signature_status |-> "unknown"]

\* The whole of insert_immutable_audit_log by a caller nobody interleaves with.
AuditAppend(log, clock, args) ==
    Append(log, AuditRow(log, clock, args, FetchLastAuditChain(log)))

\* db.rs:674-681  serialize, hash, read the last row.
AuditFetch(c, args) ==
    /\ audPc[c] = "idle"
    /\ Len(auditLog) + Cardinality({d \in AuditCallers : audPc[d] = "fetched"})
          < MaxAuditRows
    /\ audArgs' = [audArgs EXCEPT ![c] = args]
    /\ audPrev' = [audPrev EXCEPT ![c] = FetchLastAuditChain(auditLog)]
    /\ audPc' = [audPc EXCEPT ![c] = "fetched"]
    /\ UNCHANGED <<auditDbVars, notAudit>>

\* db.rs:683-722  compute the chain hash, INSERT ... RETURNING audit_id.
AuditInsert(c) ==
    /\ audPc[c] = "fetched"
    /\ auditLog' = Append(auditLog, AuditRow(auditLog, auditClock, audArgs[c], audPrev[c]))
    /\ auditClock' = auditClock + 1
    /\ audPc' = [audPc EXCEPT ![c] = "idle"]
    /\ UNCHANGED <<audArgs, audPrev, notAudit>>

\* db.rs:720  the INSERT fails: Err, no row.
AuditInsertFails(c) ==
    /\ audPc[c] = "fetched"
    /\ audPc' = [audPc EXCEPT ![c] = "idle"]
    /\ UNCHANGED <<auditDbVars, audArgs, audPrev, notAudit>>

\* A call that starts only when no other call is in progress.
AuditFetchAlone(c, args) ==
    /\ \A d \in AuditCallers : audPc[d] = "idle"
    /\ AuditFetch(c, args)

AuditInit ==
    /\ auditLog = <<>>
    /\ auditClock = 1
    /\ audPc = [c \in AuditCallers |-> "idle"]
    /\ audArgs = [c \in AuditCallers |-> [action |-> "A1", payload |-> "P1"]]
    /\ audPrev = [c \in AuditCallers |-> FetchLastAuditChain(<<>>)]

AuditNext ==
    \/ \E c \in AuditCallers, a \in AuditInputs : AuditFetch(c, a)
    \/ \E c \in AuditCallers : AuditInsert(c)
    \/ \E c \in AuditCallers : AuditInsertFails(c)

AuditSeqNext ==
    \/ \E c \in AuditCallers, a \in AuditInputs : AuditFetchAlone(c, a)
    \/ \E c \in AuditCallers : AuditInsert(c)
    \/ \E c \in AuditCallers : AuditInsertFails(c)

\* ======================================================================
\* Retention enforcer (RetentionEnforcer::enforce)
\* ======================================================================
\* A table_name is a string, modelled as a sequence of tokens: identifier
\* words, the separator ".", a blank " " and words that are no identifier.
MaxPolicyRows == 2

MaxBatchSize == 2

MaxBatchesPerTable == 2

\* Words that satisfy [A-Za-z_][A-Za-z0-9_]*.
IdentWords ==
    {"ransomeye", "public", "pg_catalog", "pg_class", "immutable_audit_log",
     "trust_verification_records", "signature_validation_events",
     "retention_policies", "raw_events", "component_health", "no_time",
     "missing", "events"}

Fqn(schema, table) == <<schema, ".", table>>

\* A denylist that lost its last entry.
DENYLIST_TABLES_Short ==
    { Fqn("ransomeye", "immutable_audit_log"),
      Fqn("ransomeye", "trust_verification_records"),
      Fqn("ransomeye", "signature_validation_events") }

\* retention_enforcer.rs:15-20
DENYLIST_TABLES ==
    { Fqn("ransomeye", "immutable_audit_log"),
      Fqn("ransomeye", "trust_verification_records"),
      Fqn("ransomeye", "signature_validation_events"),
      Fqn("ransomeye", "retention_policies") }

\* retention_enforcer.rs:22
ALLOWED_SCHEMAS == {"ransomeye", "public"}

\* retention_enforcer.rs:24-36
CANDIDATE_TIME_COLUMNS ==
    <<"created_at", "observed_at", "event_time", "received_at",
      "last_seen_at", "first_seen_at", "timestamp">>

\* The tables of the database (information_schema): columns and their types.
TableColumns ==
    [t \in { Fqn("ransomeye", "raw_events"), Fqn("ransomeye", "component_health"),
             Fqn("ransomeye", "immutable_audit_log"),
             Fqn("ransomeye", "retention_policies"),
             Fqn("ransomeye", "no_time"), Fqn("public", "events") } |->
        CASE t = Fqn("ransomeye", "raw_events") ->
                 [c \in {"raw_event_id", "observed_at", "received_at"} |->
                     IF c = "raw_event_id" THEN "uuid" ELSE "timestamp with time zone"]
          [] t = Fqn("ransomeye", "component_health") ->
                 [c \in {"health_id", "observed_at"} |->
                     IF c = "health_id" THEN "uuid" ELSE "timestamp with time zone"]
          [] t = Fqn("ransomeye", "immutable_audit_log") ->
                 [c \in {"audit_id", "event_time", "created_at"} |->
                     IF c = "audit_id" THEN "uuid" ELSE "timestamp with time zone"]
          [] t = Fqn("ransomeye", "retention_policies") ->
                 [c \in {"table_name", "created_at"} |->
                     IF c = "table_name" THEN "text" ELSE "timestamp with time zone"]
          [] t = Fqn("ransomeye", "no_time") ->
                 [c \in {"id", "created_at"} |-> IF c = "id" THEN "uuid" ELSE "text"]
          [] OTHER ->
                 [c \in {"id", "timestamp"} |->
                     IF c = "id" THEN "uuid" ELSE "timestamp without time zone"]]

ExistingTables == DOMAIN TableColumns

\* The table_name values found in retention_policies, in ORDER BY table_name order.
PolicyNames ==
    << <<" ", "ransomeye", " ", ".", " ", "immutable_audit_log", " ">>,
       <<"pg_catalog", ".", "pg_class">>,
       <<"public", ".", "events">>,
       <<"ransomeye">>,
       <<"ransomeye", ".", "component_health">>,
       <<"ransomeye", ".", "immutable_audit_log">>,
       <<"ransomeye", ".", "missing">>,
       <<"ransomeye", ".", "no_time">>,
       <<"ransomeye", ".", "raw_events">>,
       <<"ransomeye", ".", "retention_policies">>,
       <<"ransomeye", ".", "x;DROP TABLE y;">> >>

NameRank(name) == CHOOSE i \in 1..Len(PolicyNames) : PolicyNames[i] = name

PolicyRows ==
    [table_name : {PolicyNames[i] : i \in 1..Len(PolicyNames)},
     retention_days : {1}, retention_enabled : {TRUE}]
    \cup [table_name : {<<"ransomeye", ".", "raw_events">>},
          retention_days : {0}, retention_enabled : {TRUE}]
    \cup [table_name : {<<"ransomeye", ".", "immutable_audit_log">>,
                        <<"ransomeye", ".", "raw_events">>},
          retention_days : {1}, retention_enabled : {FALSE}]

\* str::split('.')
RECURSIVE SplitDot(_)
SplitDot(name) ==
    IF \A i \in 1..Len(name) : name[i] # "."
    THEN <<name>>
    ELSE LET k == CHOOSE i \in 1..Len(name) :
                      name[i] = "." /\ \A j \in 1..(i - 1) : name[j] # "."
         IN <<SubSeq(name, 1, k - 1)>> \o SplitDot(SubSeq(name, k + 1, Len(name)))

\* str::trim
RECURSIVE Trim(_)
Trim(part) ==
    IF part = <<>> THEN part
    ELSE IF Head(part) = " " THEN Trim(Tail(part))
    ELSE IF part[Len(part)] = " " THEN Trim(SubSeq(part, 1, Len(part) - 1))
    ELSE part

\* retention_enforcer.rs:81-98  QualifiedTable::quote_ident succeeds
QuoteIdentOk(ident) == Len(ident) = 1 /\ ident[1] \in IdentWords

\* retention_enforcer.rs:100-126  QualifiedTable::parse
ParseQualifiedTable(fqn) ==
    LET parts == SplitDot(fqn)
    IN IF Len(parts) # 2 THEN [ok |-> FALSE, schema |-> "", table |-> ""]
       ELSE LET schema == Trim(parts[1])
                table == Trim(parts[2])
            IN IF ~(Len(schema) = 1 /\ schema[1] \in ALLOWED_SCHEMAS)
                    \/ ~QuoteIdentOk(schema) \/ ~QuoteIdentOk(table)
               THEN [ok |-> FALSE, schema |-> "", table |-> ""]
               ELSE [ok |-> TRUE, schema |-> schema[1], table |-> table[1]]

\* retention_enforcer.rs:77-79  QualifiedTable::as_fqn
as_fqn(qt) == Fqn(qt.schema, qt.table)

\* retention_enforcer.rs:233-238  the enabled rows, ORDER BY table_name
RECURSIVE SortPolicies(_)
SortPolicies(rows) ==
    IF rows = {} THEN <<>>
    ELSE LET r == CHOOSE x \in rows :
                      \A y \in rows :
                          \/ NameRank(x.table_name) < NameRank(y.table_name)
                          \/ /\ NameRank(x.table_name) = NameRank(y.table_name)
                             /\ x.retention_days <= y.retention_days
         IN <<r>> \o SortPolicies(rows \ {r})

EnabledPolicies(policies) ==
    SortPolicies({r \in policies : r.retention_enabled})

\* retention_enforcer.rs:398-455  find_time_column: "" when it fails
FindTimeColumn(qt) ==
    IF as_fqn(qt) \notin ExistingTables THEN ""
    ELSE LET cols == TableColumns[as_fqn(qt)]
             good == {i \in 1..Len(CANDIDATE_TIME_COLUMNS) :
                        /\ CANDIDATE_TIME_COLUMNS[i] \in DOMAIN cols
                        /\ cols[CANDIDATE_TIME_COLUMNS[i]] \in
                              {"timestamp with time zone",
                               "timestamp without time zone", "date"}}
         IN IF good = {} THEN ""
            ELSE CANDIDATE_TIME_COLUMNS[CHOOSE i \in good : \A j \in good : i <= j]

\* retention_enforcer.rs:457-481  rows with time column < NOW() - days
RowsOlder(rows, retention_days) ==
    Cardinality({i \in 1..Len(rows) : rows[i] > retention_days})

\* A batch that takes every row past the cutoff, whatever the limit.
Unlimited(a, b) == b

Min(a, b) == IF a <= b THEN a ELSE b

\* An enforce_one_table that reports only when there is nothing to purge.
ReportOnlyWhenEmpty(is_dry_run, rows_older) == rows_older = 0

\* retention_enforcer.rs:339-360  the two early returns of enforce_one_table:
\* a dry run, or a live run with nothing to purge, ends with the count alone
ReportOnly(is_dry_run, rows_older) == is_dry_run \/ rows_older = 0

\* An enforce that goes to the tables without looking at the targets first.
IllegalTargetUnchecked(qts, append_only) == ""

\* retention_enforcer.rs:165-184  the two checks over all the enabled rows,
\* made before the first table is enforced: the error, "" when there is none
IllegalTarget(qts, append_only) ==
    IF \E i \in 1..Len(qts) : as_fqn(qts[i]) \in DENYLIST_TABLES
    THEN "denylist"
    ELSE IF \E i \in 1..Len(qts) : as_fqn(qts[i]) \in append_only
    THEN "append_only"
    ELSE ""

\* retention_enforcer.rs:155-189  enforce up to the per-table loop
RetEnforceStart(is_dry_run) ==
    /\ retPc = "idle"
    /\ retDryRun' = is_dry_run
    /\ LET enabled == EnabledPolicies(retPolicies)
           parsed == [i \in 1..Len(enabled) |->
                         ParseQualifiedTable(enabled[i].table_name)]
           qts == [i \in 1..Len(enabled) |->
                      [schema |-> parsed[i].schema, table |-> parsed[i].table,
                       retention_days |-> enabled[i].retention_days]]
           err == IF \E i \in 1..Len(enabled) : ~parsed[i].ok THEN "parse"
                  ELSE IF Len(enabled) = 0 THEN "no_policies"
                  ELSE IllegalTarget(qts, retCatalog)
       IN /\ retError' = err
          /\ retPc' = IF err = "" THEN "table" ELSE "failed"
          /\ retQueue' = IF err = "" THEN qts ELSE <<>>
          /\ retAppendOnly' = IF err \in {"", "append_only"} THEN retCatalog ELSE {}
    /\ UNCHANGED <<retDbVars, retCfg, retCur, retResults, retDeletes,
                   auditDbVars, notRetention>>

\* retention_enforcer.rs:294-360  enforce_one_table up to the delete loop
RetTableBegin ==
    /\ retPc = "table"
    /\ retQueue # <<>>
    /\ LET qt == Head(retQueue)
           time_col == FindTimeColumn(qt)
           rows_older == IF time_col = "" THEN 0
                         ELSE RowsOlder(retRows[as_fqn(qt)], qt.retention_days)
           res == [table |-> as_fqn(qt), retention_days |-> qt.retention_days,
                   time_column |-> time_col, dry_run_rows_older |-> rows_older,
                   deleted_rows |-> 0, batches_executed |-> 0]
       IN IF as_fqn(qt) \in DENYLIST_TABLES \/ as_fqn(qt) \in retAppendOnly
          THEN /\ retPc' = "failed"
               /\ retError' = "protected"
               /\ UNCHANGED <<retQueue, retCur, retResults>>
          ELSE IF time_col = ""
          THEN /\ retPc' = "failed"
               /\ retError' = "time_column"
               /\ UNCHANGED <<retQueue, retCur, retResults>>
          ELSE IF ReportOnly(retDryRun, rows_older)
          THEN /\ retResults' = Append(retResults, res)
               /\ retQueue' = Tail(retQueue)
               /\ UNCHANGED <<retPc, retError, retCur>>
          ELSE /\ retCur' = res
               /\ retPc' = "deleting"
               /\ UNCHANGED <<retQueue, retResults, retError>>
    /\ UNCHANGED <<retDbVars, retCfg, retDryRun, retAppendOnly, retDeletes,
                   auditDbVars, notRetention>>

\* A loop that goes on until a batch deletes nothing.
LoopEndsWhenEmpty(deleted, batches, max_batches) == deleted = 0

\* retention_enforcer.rs:364-372  `for _ in 0..max_batches_per_table` with
\* `if deleted == 0 { break; }`: the pass just made was the last one
LoopEnds(deleted, batches, max_batches) ==
    deleted = 0 \/ batches >= max_batches

\* retention_enforcer.rs:364-384, 483-520  one pass of the loop: delete_batch
RetDeleteBatch ==
    /\ retPc = "deleting"
    /\ LET t == retCur.table
           deleted == Min(retCfg.batch_size, RowsOlder(retRows[t], retCur.retention_days))
           batches == retCur.batches_executed + 1
           cur == [retCur EXCEPT !.deleted_rows = @ + deleted,
                                 !.batches_executed = batches]
       IN /\ retDeletes' = Append(retDeletes,
                 [table |-> t, time_column |-> retCur.time_column,
                  retention_days |-> retCur.retention_days, deleted |-> deleted,
                  rows |-> SubSeq(retRows[t], 1, deleted)])
          \* ORDER BY time column ASC LIMIT batch_size: the oldest rows go first
          /\ retRows' = [retRows EXCEPT ![t] = SubSeq(@, deleted + 1, Len(@))]
          /\ IF LoopEnds(deleted, batches, retCfg.max_batches_per_table)
             THEN /\ retResults' = Append(retResults, cur)
                  /\ retQueue' = Tail(retQueue)
                  /\ retPc' = "table"
                  /\ UNCHANGED retCur
             ELSE /\ retCur' = cur
                  /\ UNCHANGED <<retResults, retQueue, retPc>>
    /\ UNCHANGED <<retPolicies, retCatalog, retCfg, retDryRun, retAppendOnly,
                   retError, auditDbVars, notRetention>>

\* retention_enforcer.rs:197-213  the run's audit record, Ok((audit_id, results))
RetFinish ==
    /\ retPc = "table"
    /\ retQueue = <<>>
    /\ auditLog' = AuditAppend(auditLog, auditClock,
           [action |-> IF retDryRun THEN "runtime_retention_dry_run"
                       ELSE "runtime_retention_enforcement",
            payload |-> "retention_run"])
    /\ auditClock' = auditClock + 1
    /\ retPc' = "done"
    /\ UNCHANGED <<retDbVars, retCfg, retDryRun, retAppendOnly, retQueue, retCur,
                   retResults, retError, retDeletes, notRetention>>

SubsetsUpTo(S, n) == {T \in SUBSET S : Cardinality(T) <= n}

\* retention_enforcer.rs:47, 52  the defaults of RetentionEnforcerConfig::from_env
DefaultRetentionConfig == [batch_size |-> 1000, max_batches_per_table |-> 200]

\* The enforcer before a run, over any policy rows and trigger catalog.
RetentionInitWith(policySets, configs) ==
    /\ retPolicies \in policySets
    /\ retCatalog \in SUBSET { Fqn("ransomeye", "immutable_audit_log"),
                               Fqn("ransomeye", "component_health") }
    /\ retRows = [t \in ExistingTables |-> <<3, 2, 1, 0>>]
    /\ retCfg \in configs
    /\ retPc = "idle"
    /\ retDryRun = FALSE
    /\ retAppendOnly = {}
    /\ retQueue = <<>>
    /\ retCur = [table |-> <<>>, retention_days |-> 0, time_column |-> "",
                 dry_run_rows_older |-> 0, deleted_rows |-> 0,
                 batches_executed |-> 0]
    /\ retResults = <<>>
    /\ retError = ""
    /\ retDeletes = <<>>

RetentionInit ==
    RetentionInitWith(SubsetsUpTo(PolicyRows, MaxPolicyRows),
                      [batch_size : 1..MaxBatchSize,
                       max_batches_per_table : 1..MaxBatchesPerTable])

\* A database with one valid policy row and no enforcer running.
RetentionQuiet ==
    /\ RetentionInitWith({{[table_name |-> <<"ransomeye", ".", "raw_events">>,
                            retention_days |-> 1, retention_enabled |-> TRUE]}},
                         {DefaultRetentionConfig})
    /\ retCatalog = {Fqn("ransomeye", "immutable_audit_log")}

RetentionNext ==
    \/ \E d \in BOOLEAN : RetEnforceStart(d)
    \/ RetTableBegin
    \/ RetDeleteBatch
    \/ RetFinish

\* ======================================================================
\* Orchestrator lifecycle (Orchestrator::run, startup, shutdown; main)
\* ======================================================================
\* startup calling initialize_policy before initialize_trust.
StartupOrderPolicyFirst ==
    <<"validate_environment", "initialize_database", "initialize_policy",
      "initialize_trust", "initialize_bus", "initialize_services", "health_gate">>

\* The database-initialized audit record claiming RUNNING.
DbInitAuditStatusRunning == "RUNNING"

\* lib.rs:291-296  the status in the orchestrator_db_initialized audit payload
DbInitAuditStatus == "STARTING"

\* lib.rs:532-551  the startup steps, in the order startup calls them
StartupOrder ==
    <<"validate_environment", "initialize_database", "initialize_trust",
      "initialize_policy", "initialize_bus", "initialize_services", "health_gate">>

StepIndex(step) == CHOOSE i \in 1..Len(StartupOrder) : StartupOrder[i] = step

\* The first position inside a step.
FirstPc(step) == IF step = "initialize_database" THEN "db_connect" ELSE step

\* startup that drops the result of initialize_bus instead of propagating it.
StepOutcomeBusErrorDropped(step, ok) ==
    IF ~ok /\ step # "initialize_bus" THEN "run_err"
    ELSE IF step = "health_gate" THEN "set_running"
    ELSE FirstPc(StartupOrder[StepIndex(step) + 1])

\* lib.rs:533-551  `step()?`: on Err startup (and run) return it to main;
\* on Ok startup goes on to the next step, and after the last to RUNNING.
StepOutcome(step, ok) ==
    IF ~ok THEN "run_err"
    ELSE IF step = "health_gate" THEN "set_running"
    ELSE FirstPc(StartupOrder[StepIndex(step) + 1])

\* A startup step returns Ok or Err(err).
StepReturns(step, ok, err) ==
    /\ orchReturned' = Append(orchReturned, [step |-> step, ok |-> ok])
    /\ orchPc' = StepOutcome(step, ok)
    /\ orchErr' = IF ok THEN orchErr ELSE err

\* lib.rs:118-122  set_state
SetState(new_state) ==
    /\ current_state' = new_state
    /\ orchStateLog' = Append(orchStateLog, new_state)

\* lib.rs:132-180
OrchValidateEnvironment(ok) ==
    /\ orchPc = "validate_environment"
    /\ IF ok THEN SetState("EnvironmentValidated")
       ELSE UNCHANGED <<current_state, orchStateLog>>
    /\ StepReturns("validate_environment", ok, "EnvironmentValidationFailed")
    /\ UNCHANGED <<state, kernel, policy_engine, bus_client, db, component_db_id,
                   dry_run, exitCode, orchDbVars, orchShutdownLog, auditDbVars,
                   retVars, notOrchestrator>>

\* lib.rs:191-196  DbConfig::from_env_strict, CoreDb::connect_strict
OrchDbConnect(cfg_ok) ==
    /\ orchPc = "db_connect"
    /\ IF cfg_ok /\ dbUp
       THEN /\ orchPc' = "db_schema"
            /\ UNCHANGED <<orchReturned, orchErr>>
       ELSE StepReturns("initialize_database", FALSE,
                IF cfg_ok THEN "DatabaseConnectionFailed"
                ELSE "EnvironmentValidationFailed")
    /\ UNCHANGED <<orchObjVars, exitCode, orchDbVars, orchStateLog,
                   orchShutdownLog, auditDbVars, retVars, notOrchestrator>>

\* lib.rs:198-206  apply_authoritative_schema_from_env, validate_schema_contract
OrchDbSchema(apply_ok, contract_ok) ==
    /\ orchPc = "db_schema"
    /\ IF dbUp /\ apply_ok /\ contract_ok
       THEN /\ orchPc' = "db_writes"
            /\ UNCHANGED <<orchReturned, orchErr>>
       ELSE StepReturns("initialize_database", FALSE,
                IF dbUp /\ apply_ok THEN "DatabaseSchemaValidationFailed"
                ELSE "DatabaseSchemaApplyFailed")
    /\ UNCHANGED <<orchObjVars, exitCode, orchDbVars, orchStateLog,
                   orchShutdownLog, auditDbVars, retVars, notOrchestrator>>

\* lib.rs:208-306  upsert_component, startup_events, component_health, audit
OrchDbWrites ==
    /\ orchPc = "db_writes"
    /\ IF dbUp
       THEN /\ startupRows' = Append(startupRows, [boot_reason |-> "service_start"])
            /\ healthRows' = Append(healthRows,
                   [status |-> "healthy", status_details |-> "startup_db_initialized",
                    state |-> "STARTING"])
            /\ auditLog' = AuditAppend(auditLog, auditClock,
                   [action |-> "orchestrator_db_initialized",
                    payload |-> DbInitAuditStatus])
            /\ auditClock' = auditClock + 1
            /\ orchPc' = "db_retention"
            /\ UNCHANGED <<orchReturned, orchErr>>
       ELSE /\ StepReturns("initialize_database", FALSE, "DatabaseWriteFailed")
            /\ UNCHANGED <<startupRows, healthRows, auditDbVars>>
    /\ UNCHANGED <<orchObjVars, exitCode, dbUp, errorRows, orchStateLog,
                   orchShutdownLog, retVars, notOrchestrator>>

\* lib.rs:313-318  retention_enforcer.enforce(&db, .., true /* dry_run */)
OrchRetentionStart ==
    /\ orchPc = "db_retention"
    /\ dbUp
    /\ RetEnforceStart(TRUE)

OrchRetentionTable ==
    /\ orchPc = "db_retention"
    /\ dbUp
    /\ RetTableBegin

OrchRetentionFinish ==
    /\ orchPc = "db_retention"
    /\ dbUp
    /\ RetFinish

\* lib.rs:318-328  the dry-run returned; on Ok the handles are stored in self
OrchDbInitDone ==
    /\ orchPc = "db_retention"
    /\ retPc \in {"done", "failed"} \/ ~dbUp
    /\ LET ok == dbUp /\ retPc = "done"
       IN /\ StepReturns("initialize_database", ok, "RetentionDryRunValidationFailed")
          /\ db' = IF ok THEN "some" ELSE db
          /\ component_db_id' = IF ok THEN "some" ELSE component_db_id
    /\ UNCHANGED <<current_state, state, kernel, policy_engine, bus_client,
                   dry_run, exitCode, orchDbVars, orchStateLog, orchShutdownLog,
                   auditDbVars, retVars, notOrchestrator>>

\* lib.rs:373-389
OrchInitializeTrust(ok) ==
    /\ orchPc = "initialize_trust"
    /\ IF ok THEN SetState("TrustInitialized") /\ kernel' = "some"
       ELSE UNCHANGED <<current_state, orchStateLog, kernel>>
    /\ StepReturns("initialize_trust", ok, "TrustInitFailed")
    /\ UNCHANGED <<state, policy_engine, bus_client, db, component_db_id, dry_run,
                   exitCode, orchDbVars, orchShutdownLog, auditDbVars, retVars,
                   notOrchestrator>>

\* lib.rs:394-428
OrchInitializePolicy(ok) ==
    /\ orchPc = "initialize_policy"
    /\ IF ok THEN SetState("PolicyInitialized") /\ policy_engine' = "some"
       ELSE UNCHANGED <<current_state, orchStateLog, policy_engine>>
    /\ StepReturns("initialize_policy", ok, "PolicyInitFailed")
    /\ UNCHANGED <<state, kernel, bus_client, db, component_db_id, dry_run,
                   exitCode, orchDbVars, orchShutdownLog, auditDbVars, retVars,
                   notOrchestrator>>

\* lib.rs:433-459  without a client certificate the bus is skipped
OrchInitializeBus(cert_configured, client_ok) ==
    /\ orchPc = "initialize_bus"
    /\ LET ok == ~cert_configured \/ client_ok
       IN /\ IF ok THEN SetState("BusInitialized")
             ELSE UNCHANGED <<current_state, orchStateLog>>
          /\ bus_client' = IF cert_configured /\ client_ok THEN "some" ELSE bus_client
          /\ StepReturns("initialize_bus", ok, "BusInitFailed")
    /\ UNCHANGED <<state, kernel, policy_engine, db, component_db_id, dry_run,
                   exitCode, orchDbVars, orchShutdownLog, auditDbVars, retVars,
                   notOrchestrator>>

\* lib.rs:465-490
OrchInitializeServices ==
    /\ orchPc = "initialize_services"
    /\ SetState("ServicesInitialized")
    /\ StepReturns("initialize_services", TRUE, "ComponentInitFailed")
    /\ UNCHANGED <<state, kernel, policy_engine, bus_client, db, component_db_id,
                   dry_run, exitCode, orchDbVars, orchShutdownLog, auditDbVars,
                   retVars, notOrchestrator>>

\* lib.rs:495-521
OrchHealthGate ==
    /\ orchPc = "health_gate"
    /\ LET ok == kernel = "some" /\ policy_engine = "some"
       IN /\ IF ok THEN SetState("Ready")
             ELSE UNCHANGED <<current_state, orchStateLog>>
          /\ StepReturns("health_gate", ok, "HealthGateFailed")
    /\ UNCHANGED <<state, kernel, policy_engine, bus_client, db, component_db_id,
                   dry_run, exitCode, orchDbVars, orchShutdownLog, auditDbVars,
                   retVars, notOrchestrator>>

\* lib.rs:553-555  set_state(Running); state.store(true)
OrchSetRunning ==
    /\ orchPc = "set_running"
    /\ SetState("Running")
    /\ state' = TRUE
    /\ orchPc' = "running_writes"
    /\ UNCHANGED <<kernel, policy_engine, bus_client, db, component_db_id, dry_run,
                   orchErr, exitCode, orchDbVars, orchReturned, orchShutdownLog,
                   auditDbVars, retVars, notOrchestrator>>

\* lib.rs:557-591  the RUNNING health row and audit record; then run goes on
\* (lib.rs:637-642): a dry run returns Ok, otherwise run waits for ctrl-c.
OrchRunningWrites ==
    /\ orchPc = "running_writes"
    /\ IF db = "some" /\ component_db_id = "some" /\ ~dbUp
       THEN /\ orchPc' = "run_err"
            /\ orchErr' = "DatabaseWriteFailed"
            /\ UNCHANGED <<healthRows, auditDbVars>>
       ELSE /\ IF db = "some" /\ component_db_id = "some"
               THEN /\ healthRows' = Append(healthRows,
                           [status |-> "healthy", status_details |-> "running",
                            state |-> "RUNNING"])
                    /\ auditLog' = AuditAppend(auditLog, auditClock,
                           [action |-> "orchestrator_startup", payload |-> "RUNNING"])
                    /\ auditClock' = auditClock + 1
               ELSE UNCHANGED <<healthRows, auditDbVars>>
            /\ orchPc' = IF dry_run THEN "run_ok" ELSE "waiting"
            /\ UNCHANGED orchErr
    /\ UNCHANGED <<orchObjVars, exitCode, dbUp, startupRows, errorRows,
                   orchReturned, orchStateLog, orchShutdownLog, retVars,
                   notOrchestrator>>

\* shutdown handling the trust subsystem before the services.
ShutdownOrderTrustFirst ==
    <<"shutdown_trust", "shutdown_policy", "shutdown_bus", "shutdown_services">>

\* lib.rs:600-622  the shutdown steps, in the order shutdown takes them
ShutdownOrder ==
    <<"shutdown_services", "shutdown_bus", "shutdown_policy", "shutdown_trust">>

\* lib.rs:646-648  signal::ctrl_c().await
OrchSignal(ok) ==
    /\ orchPc = "waiting"
    /\ orchPc' = IF ok THEN "shutdown" ELSE "run_err"
    /\ orchErr' = IF ok THEN orchErr ELSE "ShutdownFailed"
    /\ UNCHANGED <<orchObjVars, exitCode, orchDbVars, orchReturned, orchStateLog,
                   orchShutdownLog, auditDbVars, retVars, notOrchestrator>>

\* lib.rs:596-598  set_state(ShuttingDown)
OrchShutdownBegin ==
    /\ orchPc = "shutdown"
    /\ SetState("ShuttingDown")
    /\ orchPc' = ShutdownOrder[1]
    /\ UNCHANGED <<state, kernel, policy_engine, bus_client, db, component_db_id,
                   dry_run, orchErr, exitCode, orchDbVars, orchReturned,
                   orchShutdownLog, auditDbVars, retVars, notOrchestrator>>

\* lib.rs:600-622  services, bus, policy, trust
OrchShutdownStep ==
    /\ \E i \in 1..4 :
          /\ i <= Len(ShutdownOrder)
          /\ orchPc = ShutdownOrder[i]
          /\ orchShutdownLog' = Append(orchShutdownLog, orchPc)
          /\ orchPc' = IF i < Len(ShutdownOrder) THEN ShutdownOrder[i + 1]
                                                ELSE "shutdown_clear"
    /\ UNCHANGED <<orchObjVars, orchErr, exitCode, orchDbVars, orchReturned,
                   orchStateLog, auditDbVars, retVars, notOrchestrator>>

\* lib.rs:624-626  state.store(false); Ok(())
OrchShutdownEnd ==
    /\ orchPc = "shutdown_clear"
    /\ state' = FALSE
    /\ orchPc' = "run_ok"
    /\ UNCHANGED <<current_state, kernel, policy_engine, bus_client, db,
                   component_db_id, dry_run, orchErr, exitCode, orchDbVars,
                   orchReturned, orchStateLog, orchShutdownLog, auditDbVars,
                   retVars, notOrchestrator>>

\* lib.rs:332-368  record_fatal_error, called by main (main.rs:38-42)
OrchRecordFatalError ==
    /\ orchPc = "run_err"
    /\ IF db = "some" /\ dbUp
       THEN /\ errorRows' = Append(errorRows,
                   [severity |-> "critical", error_type |-> "orchestrator_fatal",
                    error_message |-> orchErr, state |-> current_state])
            /\ IF component_db_id = "some"
               THEN /\ auditLog' = AuditAppend(auditLog, auditClock,
                           [action |-> "orchestrator_fatal_error", payload |-> orchErr])
                    /\ auditClock' = auditClock + 1
               ELSE UNCHANGED auditDbVars
       ELSE UNCHANGED <<errorRows, auditDbVars>>
    /\ orchPc' = "recorded"
    /\ UNCHANGED <<orchObjVars, orchErr, exitCode, dbUp, healthRows, startupRows,
                   orchReturned, orchStateLog, orchShutdownLog, retVars,
                   notOrchestrator>>

\* main.rs:34-44  process::exit(0) after Ok, process::exit(1) after Err
OrchExit ==
    /\ orchPc \in {"run_ok", "recorded"}
    /\ exitCode' = IF orchPc = "run_ok" THEN 0 ELSE 1
    /\ orchPc' = "exited"
    /\ UNCHANGED <<orchObjVars, orchErr, orchDbVars, orchReturned, orchStateLog,
                   orchShutdownLog, auditDbVars, retVars, notOrchestrator>>

\* The database stops answering.
OrchDbLost ==
    /\ dbUp
    /\ orchPc # "exited"
    /\ dbUp' = FALSE
    /\ UNCHANGED <<orchObjVars, orchPc, orchErr, exitCode, healthRows, startupRows,
                   errorRows, orchReturned, orchStateLog, orchShutdownLog,
                   auditDbVars, retVars, notOrchestrator>>

\* lib.rs:97-115  Orchestrator::new, with the database up or down
OrchInitWith(dryRuns, dbStates) ==
    /\ current_state = "Initializing"
    /\ state = FALSE
    /\ kernel = "none"
    /\ policy_engine = "none"
    /\ bus_client = "none"
    /\ db = "none"
    /\ component_db_id = "none"
    /\ dry_run \in dryRuns
    /\ orchPc = "validate_environment"
    /\ orchErr = ""
    /\ exitCode = -1
    /\ dbUp \in dbStates
    /\ healthRows = <<>>
    /\ startupRows = <<>>
    /\ errorRows = <<>>
    /\ orchReturned = <<>>
    /\ orchStateLog = <<"Initializing">>
    /\ orchShutdownLog = <<>>

OrchInit == OrchInitWith(BOOLEAN, BOOLEAN)

OrchQuiet == OrchInitWith({FALSE}, {TRUE})

OrchNext ==
    \/ \E ok \in BOOLEAN : OrchValidateEnvironment(ok)
    \/ \E ok \in BOOLEAN : OrchDbConnect(ok)
    \/ \E a, c \in BOOLEAN : OrchDbSchema(a, c)
    \/ OrchDbWrites
    \/ OrchRetentionStart
    \/ OrchRetentionTable
    \/ OrchRetentionFinish
    \/ OrchDbInitDone
    \/ \E ok \in BOOLEAN : OrchInitializeTrust(ok)
    \/ \E ok \in BOOLEAN : OrchInitializePolicy(ok)
    \/ \E cert, ok \in BOOLEAN : OrchInitializeBus(cert, ok)
    \/ OrchInitializeServices
    \/ OrchHealthGate
    \/ OrchSetRunning
    \/ OrchRunningWrites
    \/ \E ok \in BOOLEAN : OrchSignal(ok)
    \/ OrchShutdownBegin
    \/ OrchShutdownStep
    \/ OrchShutdownEnd
    \/ OrchRecordFatalError
    \/ OrchExit
    \/ OrchDbLost

\* ======================================================================
\* HTTP ingestion server (handle_linux_ingest, handle_dpi_ingest)
\* ======================================================================
IngestRequests == 2

Requests == 1..IngestRequests

\* A JSON object key that is absent.
Missing == "<missing>"

\* Uuid::parse_str accepts exactly these strings.
UuidStrings == {"123e4567-e89b-12d3-a456-426614174000"}

\* DateTime::parse_from_rfc3339 accepts exactly these strings.
Rfc3339Strings == {"2024-01-01T00:00:00Z"}

HexEncode(bytes) == [encoding |-> "hex", bytes |-> bytes]

\* hex::decode(..).unwrap_or_default()
HexDecodeOrDefault(str) == IF str.encoding = "hex" THEN str.bytes ELSE Leaf("")

Base64Encode(bytes) == [encoding |-> "base64", bytes |-> bytes]

\* general_purpose::STANDARD.decode
Base64Decode(str) ==
    IF str.encoding = "base64" THEN [ok |-> TRUE, bytes |-> str.bytes]
    ELSE [ok |-> FALSE, bytes |-> str.bytes]

\* serde_json::to_vec of the agent's EventEnvelope struct (fields in struct order)
CanonicalBytes(envelope) ==
    <<"struct", <<envelope.event_id, envelope.timestamp, envelope.component_id,
                  envelope.data>>>>

\* serde_json::to_vec of a JsonValue (object keys in map order)
SerdeToVec(envelope) ==
    <<"map", <<envelope.component_id, envelope.data, envelope.event_id,
               envelope.timestamp>>>>

\* serde_json::to_vec of the envelope's data value
SerdeDataToVec(data) == <<"map", <<data>>>>

\* The message EventSigner::sign signs: the sequence number, big-endian, then
\* the data (here the 32 hash bytes, kept as one symbolic block).
SignedMessage(seq, hash_bytes) == ToBeBytes(seq) \o <<hash_bytes>>

\* The agent: hash the canonical envelope, sign the hash, post the SignedEvent.
AgentSignedEvent(envelope, seq) ==
    LET hash_bytes == Sha256(CanonicalBytes(envelope))
    IN [envelope |-> envelope,
        payload_hash |-> HexEncode(hash_bytes),
        signature |-> Base64Encode(
            Ed25519Sign("signing_key", SignedMessage(seq, hash_bytes))),
        signer_id |-> "hostA"]

ValidEnvelope ==
    [event_id |-> "123e4567-e89b-12d3-a456-426614174000",
     timestamp |-> "2024-01-01T00:00:00Z",
     component_id |-> "hostA",
     data |-> "{\"pid\":1}"]

ValidEvent == AgentSignedEvent(ValidEnvelope, 0)

\* The request bodies posted: the agent's event, and that event with one
\* part changed or removed after the agent hashed and signed it.
IngestPayloads ==
    { ValidEvent,
      [ValidEvent EXCEPT !.envelope.data = "{\"pid\":2}"],
      [ValidEvent EXCEPT !.signature = Base64Encode(Ed25519Sign("other_key",
          SignedMessage(0, Sha256(CanonicalBytes(ValidEnvelope)))))],
      [ValidEvent EXCEPT !.signature.encoding = "invalid"],
      [ValidEvent EXCEPT !.signature.encoding = "empty"],
      [ValidEvent EXCEPT !.payload_hash.encoding = "empty"],
      [ValidEvent EXCEPT !.signer_id = ""],
      [ValidEvent EXCEPT !.envelope.event_id = Missing],
      [ValidEvent EXCEPT !.envelope.event_id = "not-a-uuid"],
      [ValidEvent EXCEPT !.envelope.timestamp = Missing],
      [ValidEvent EXCEPT !.envelope.timestamp = "yesterday"],
      [ValidEvent EXCEPT !.envelope.component_id = Missing],
      [ValidEvent EXCEPT !.envelope.data = Missing] }

\* The checks without the parse of the timestamp.
ValidateRequestUnparsedTimestamp(p) ==
    /\ p.signature.encoding # "empty"
    /\ p.payload_hash.encoding # "empty"
    /\ p.signer_id # ""
    /\ Base64Decode(p.signature).ok
    /\ p.envelope.event_id # Missing
    /\ p.envelope.timestamp # Missing
    /\ p.envelope.component_id # Missing
    /\ p.envelope.data # Missing

\* http_server.rs:115-176 (444-505)  the checks made before any statement
ValidateRequest(p) ==
    /\ p.signature.encoding # "empty"
    /\ p.payload_hash.encoding # "empty"
    /\ p.signer_id # ""
    /\ Base64Decode(p.signature).ok
    /\ p.envelope.event_id # Missing
    /\ p.envelope.timestamp # Missing
    /\ p.envelope.timestamp \in Rfc3339Strings
    /\ p.envelope.component_id # Missing
    /\ p.envelope.data # Missing

\* The outcome of a statement sent on the session: it succeeds, the server
\* rejects it, or the client fails before the server acts on it.
Outcomes == {"ok", "server_error", "client_error"}

\* BEGIN and ROLLBACK are not rejected by a server that receives them.
TxnOutcomes == {"ok", "client_error"}

\* db.execute(..) returned Ok: inside a failed transaction block the server
\* rejects every statement but COMMIT and ROLLBACK.
StmtOk(outcome) == txn # "aborted" /\ outcome = "ok"

\* The session after a data statement whose success leaves the rows `working`:
\* outside a transaction block the statement commits by itself; an error
\* raised by the server inside a block aborts the block.
Session(outcome, working) ==
    /\ txn' = IF txn = "open" /\ outcome = "server_error" THEN "aborted" ELSE txn
    /\ dbWorking' = IF StmtOk(outcome) THEN working ELSE dbWorking
    /\ dbCommitted' = IF StmtOk(outcome) /\ txn = "idle" THEN working
                      ELSE dbCommitted

Logged(r, stmt) == reqLog' = [reqLog EXCEPT ![r] = Append(@, stmt)]

Respond(r, code) ==
    /\ reqStatus' = [reqStatus EXCEPT ![r] = code]
    /\ reqPc' = [reqPc EXCEPT ![r] = "done"]

Goto(r, pc) ==
    /\ reqPc' = [reqPc EXCEPT ![r] = pc]
    /\ UNCHANGED reqStatus

AgentType(kind) == IF kind = "linux" THEN "linux_agent" ELSE "dpi_probe"

NoAgent == -1

\* http_server.rs:104-176, 440-505  a request arrives and is validated
IngestReceive(r, kind, p) ==
    /\ reqPc[r] = "idle"
    /\ \A q \in Requests : q < r => reqPc[q] # "idle"
    /\ reqKind' = [reqKind EXCEPT ![r] = kind]
    /\ reqPayload' = [reqPayload EXCEPT ![r] = p]
    /\ IF ValidateRequest(p) THEN Goto(r, "agent_select") ELSE Respond(r, 400)
    /\ UNCHANGED <<ingestDbVars, reqAgent, reqLog, notIngest>>

\* http_server.rs:671-695  get_or_create_agent: SELECT agent_id .. LIMIT 1
IngestAgentSelect(r, outcome) ==
    /\ reqPc[r] = "agent_select"
    /\ Logged(r, "SELECT agents")
    /\ Session(outcome, dbWorking)
    /\ LET matches == {a \in dbWorking.agents :
                          /\ a.host_hostname = reqPayload[r].envelope.component_id
                          /\ a.agent_type = AgentType(reqKind[r])}
       IN \/ /\ StmtOk(outcome)
             /\ matches = {}
             /\ Goto(r, "agent_insert")
             /\ UNCHANGED reqAgent
          \/ /\ StmtOk(outcome)
             /\ \E a \in matches : reqAgent' = [reqAgent EXCEPT ![r] = a.agent_id]
             /\ Goto(r, "agent_touch")
          \/ /\ ~StmtOk(outcome)
             /\ Respond(r, 500)
             /\ UNCHANGED reqAgent
    /\ UNCHANGED <<reqKind, reqPayload, notIngest>>

\* http_server.rs:243-247 (538-542)  after the agent is resolved: Uuid::parse_str
AfterAgent(r) ==
    IF reqPayload[r].envelope.event_id \notin UuidStrings THEN Respond(r, 400)
    ELSE Goto(r, IF reqKind[r] = "linux" THEN "begin" ELSE "dpi_insert")

\* http_server.rs:697-709  UPDATE agents SET last_seen_at = NOW()
IngestAgentTouch(r, outcome) ==
    /\ reqPc[r] = "agent_touch"
    /\ Logged(r, "UPDATE agents")
    /\ Session(outcome,
         [dbWorking EXCEPT !.agents =
             {IF a.agent_id = reqAgent[r] THEN [a EXCEPT !.last_seen_at = r] ELSE a
                 : a \in dbWorking.agents}])
    /\ IF StmtOk(outcome) THEN AfterAgent(r) ELSE Respond(r, 500)
    /\ UNCHANGED <<reqKind, reqPayload, reqAgent, notIngest>>

\* http_server.rs:711-742  INSERT INTO agents with a fresh agent_id
IngestAgentInsert(r, outcome) ==
    /\ reqPc[r] = "agent_insert"
    /\ Logged(r, "INSERT agents")
    /\ Session(outcome,
         [dbWorking EXCEPT !.agents = @ \cup
             {[agent_id |-> r,
               host_hostname |-> reqPayload[r].envelope.component_id,
               agent_type |-> AgentType(reqKind[r]),
               last_seen_at |-> r]}])
    /\ reqAgent' = [reqAgent EXCEPT ![r] = r]
    /\ IF StmtOk(outcome) THEN AfterAgent(r) ELSE Respond(r, 500)
    /\ UNCHANGED <<reqKind, reqPayload, notIngest>>

\* http_server.rs:264-268  db.execute("BEGIN")
LinuxBegin(r, outcome) ==
    /\ reqPc[r] = "begin"
    /\ Logged(r, "BEGIN")
    /\ txn' = IF StmtOk(outcome) THEN "open" ELSE txn
    /\ IF StmtOk(outcome) THEN Goto(r, "insert_raw") ELSE Respond(r, 500)
    /\ UNCHANGED <<dbCommitted, dbWorking, reqKind, reqPayload, reqAgent, notIngest>>

\* http_server.rs:251-298  INSERT INTO raw_events
LinuxInsertRaw(r, outcome) ==
    /\ reqPc[r] = "insert_raw"
    /\ Logged(r, "INSERT raw_events")
    /\ Session(outcome,
         [dbWorking EXCEPT !.raw_events = @ \cup
             {[req |-> r,
               source_type |-> "linux_agent",
               source_agent_id |-> reqAgent[r],
               payload_json |-> reqPayload[r].envelope,
               payload_sha256 |-> Sha256(SerdeToVec(reqPayload[r].envelope))]}])
    /\ Goto(r, IF StmtOk(outcome) THEN "insert_telemetry" ELSE "rollback")
    /\ UNCHANGED <<reqKind, reqPayload, reqAgent, notIngest>>

\* http_server.rs:295-296, 434-435  let _ = db.execute("ROLLBACK"); 500
LinuxRollback(r, outcome) ==
    /\ reqPc[r] = "rollback"
    /\ Logged(r, "ROLLBACK")
    /\ txn' = IF outcome = "ok" THEN "idle" ELSE txn
    /\ dbWorking' = IF outcome = "ok" THEN dbCommitted ELSE dbWorking
    /\ Respond(r, 500)
    /\ UNCHANGED <<dbCommitted, reqKind, reqPayload, reqAgent, notIngest>>

\* http_server.rs:302-375  the nonce, then INSERT INTO linux_agent_telemetry
LinuxInsertTelemetry(r, nonce_ok, outcome) ==
    /\ reqPc[r] = "insert_telemetry"
    /\ IF ~nonce_ok
       THEN /\ Respond(r, 500)
            /\ UNCHANGED <<ingestDbVars, reqLog>>
       ELSE /\ Logged(r, "INSERT linux_agent_telemetry")
            /\ Session(outcome,
                 [dbWorking EXCEPT !.linux_agent_telemetry = @ \cup
                     {[req |-> r,
                       agent_id |-> reqAgent[r],
                       source_message_id |-> reqPayload[r].envelope.event_id,
                       source_signature_b64 |-> reqPayload[r].signature,
                       source_data_hash_hex |-> reqPayload[r].payload_hash,
                       payload_sha256 |-> NullHash,
                       optional_fields |-> FALSE]}])
            /\ Goto(r, IF StmtOk(outcome) THEN "update_optional" ELSE "rollback")
    /\ UNCHANGED <<reqKind, reqPayload, reqAgent, notIngest>>

\* http_server.rs:380-408  UPDATE linux_agent_telemetry .. WHERE source_message_id;
\* a failure is logged and the handler goes on to COMMIT
LinuxUpdateOptional(r, outcome) ==
    /\ reqPc[r] = "update_optional"
    /\ Logged(r, "UPDATE linux_agent_telemetry")
    /\ Session(outcome,
         [dbWorking EXCEPT !.linux_agent_telemetry =
             {IF t.source_message_id = reqPayload[r].envelope.event_id
              THEN [t EXCEPT !.payload_sha256 =
                        Sha256(SerdeDataToVec(reqPayload[r].envelope.data)),
                    !.optional_fields = TRUE]
              ELSE t : t \in dbWorking.linux_agent_telemetry}])
    /\ Goto(r, "commit")
    /\ UNCHANGED <<reqKind, reqPayload, reqAgent, notIngest>>

\* http_server.rs:411-423  db.execute("COMMIT"): Ok gives 200, Err gives 500.
\* The server ends a failed block by rolling it back and reports that as
\* success; a block it cannot commit it rolls back and reports the error.
LinuxCommit(r, outcome) ==
    /\ reqPc[r] = "commit"
    /\ Logged(r, "COMMIT")
    /\ IF outcome = "client_error"
       THEN UNCHANGED ingestDbVars
       ELSE /\ txn' = "idle"
            /\ dbCommitted' = IF txn = "open" /\ outcome = "ok" THEN dbWorking
                              ELSE dbCommitted
            /\ dbWorking' = IF txn = "open" /\ outcome = "ok" THEN dbWorking
                            ELSE dbCommitted
    /\ Respond(r, IF outcome = "ok" THEN 200 ELSE 500)
    /\ UNCHANGED <<reqKind, reqPayload, reqAgent, notIngest>>

\* http_server.rs:562-611, 643-646  INSERT INTO dpi_probe_telemetry
DpiInsertTelemetry(r, outcome) ==
    /\ reqPc[r] = "dpi_insert"
    /\ Logged(r, "INSERT dpi_probe_telemetry")
    /\ Session(outcome,
         [dbWorking EXCEPT !.dpi_probe_telemetry = @ \cup
             {[req |-> r,
               agent_id |-> reqAgent[r],
               source_message_id |-> reqPayload[r].envelope.event_id,
               source_signature_b64 |-> reqPayload[r].signature,
               source_data_hash_hex |-> reqPayload[r].payload_hash,
               payload_sha256 |-> HexDecodeOrDefault(reqPayload[r].payload_hash),
               optional_fields |-> TRUE]}])
    /\ IF StmtOk(outcome) THEN Goto(r, "dpi_raw") ELSE Respond(r, 500)
    /\ UNCHANGED <<reqKind, reqPayload, reqAgent, notIngest>>

\* http_server.rs:613-641  INSERT INTO raw_events, its result dropped; 200
DpiInsertRaw(r, outcome) ==
    /\ reqPc[r] = "dpi_raw"
    /\ Logged(r, "INSERT raw_events")
    /\ Session(outcome,
         [dbWorking EXCEPT !.raw_events = @ \cup
             {[req |-> r,
               source_type |-> "dpi_probe",
               source_agent_id |-> reqAgent[r],
               payload_json |-> [reqPayload[r].envelope EXCEPT
                                    !.event_id = Missing, !.timestamp = Missing,
                                    !.component_id = Missing],
               payload_sha256 |->
                   Sha256(SerdeDataToVec(reqPayload[r].envelope.data))]}])
    /\ Respond(r, 200)
    /\ UNCHANGED <<reqKind, reqPayload, reqAgent, notIngest>>

EmptyTables ==
    [agents |-> {}, raw_events |-> {}, linux_agent_telemetry |-> {},
     dpi_probe_telemetry |-> {}]

\* The agent of hostA, registered by an earlier run.
KnownAgent ==
    [agent_id |-> 0, host_hostname |-> "hostA", agent_type |-> "linux_agent",
     last_seen_at |-> 0]

\* http_server.rs:46-88  HttpIngestionServer::new: one connection, no block open
IngestInitWith(agentTables) ==
    /\ txn = "idle"
    /\ dbCommitted \in {[EmptyTables EXCEPT !.agents = a] : a \in agentTables}
    /\ dbWorking = dbCommitted
    /\ reqPc = [r \in Requests |-> "idle"]
    /\ reqKind = [r \in Requests |-> "none"]
    /\ reqPayload = [r \in Requests |-> ValidEvent]
    /\ reqStatus = [r \in Requests |-> 0]
    /\ reqAgent = [r \in Requests |-> NoAgent]
    /\ reqLog = [r \in Requests |-> <<>>]

IngestInit == IngestInitWith({{}, {KnownAgent}})

IngestQuiet == IngestInitWith({{}})

\* One step of the handler of request r.
IngestStep(r) ==
    \/ \E o \in {"ok", "server_error"} : IngestAgentSelect(r, o)
    \/ \E o \in Outcomes : IngestAgentTouch(r, o)
    \/ \E o \in Outcomes : IngestAgentInsert(r, o)
    \/ \E o \in TxnOutcomes : LinuxBegin(r, o)
    \/ \E o \in Outcomes : LinuxInsertRaw(r, o)
    \/ \E o \in TxnOutcomes : LinuxRollback(r, o)
    \/ \E n \in BOOLEAN, o \in Outcomes : LinuxInsertTelemetry(r, n, o)
    \/ \E o \in Outcomes : LinuxUpdateOptional(r, o)
    \/ \E o \in Outcomes : LinuxCommit(r, o)
    \/ \E o \in Outcomes : DpiInsertTelemetry(r, o)
    \/ \E o \in Outcomes : DpiInsertRaw(r, o)

\* http_server.rs:90-101  axum runs every request as its own task over the
\* one shared Arc<Client>: the handlers' statements interleave.
IngestNext ==
    \/ \E r \in Requests, k \in {"linux", "dpi"}, p \in IngestPayloads :
           IngestReceive(r, k, p)
    \/ \E r \in Requests : IngestStep(r)

\* Requests served one at a time: the next arrives after the last was answered.
IngestIsoNext ==
    \/ \E r \in Requests, k \in {"linux", "dpi"}, p \in IngestPayloads :
           /\ \A q \in Requests : reqPc[q] \in {"idle", "done"}
           /\ IngestReceive(r, k, p)
    \/ \E r \in Requests : IngestStep(r)

\* Requests served one at a time by a database that executes every statement
\* it is sent: no INSERT fails, so no handler comes to its ROLLBACK.
IngestReliableNext ==
    \/ \E r \in Requests, k \in {"linux", "dpi"}, p \in IngestPayloads :
           /\ \A q \in Requests : reqPc[q] \in {"idle", "done"}
           /\ IngestReceive(r, k, p)
    \/ \E r \in Requests :
           \/ IngestAgentSelect(r, "ok")
           \/ IngestAgentTouch(r, "ok")
           \/ IngestAgentInsert(r, "ok")
           \/ LinuxBegin(r, "ok")
           \/ LinuxInsertRaw(r, "ok")
           \/ \E n \in BOOLEAN : LinuxInsertTelemetry(r, n, "ok")
           \/ LinuxUpdateOptional(r, "ok")
           \/ LinuxCommit(r, "ok")
           \/ DpiInsertTelemetry(r, "ok")
           \/ DpiInsertRaw(r, "ok")

\* ======================================================================
\* Deception deployer and teardown engine (core/deception/src)
\* ======================================================================
\* Calls of the deployer's and the teardown engine's entry points, together.
MaxDeceptionCalls == 3

MaxEmergencyIds == 3

MaxDecClock == 2

\* Two tasks call the deployer side by side.
Deployers == {1, 2}

\* "a3" names no loaded asset.
AssetIds == {"a1", "a2", "a3"}

\* The fields of a DeceptionAsset the deployer and the teardown engine read:
\* asset_type, max_lifetime, the "port:" tag of metadata.tags (0 when there
\* is none, deployer.rs:181-185) and teardown_procedure.steps.
DeceptionAsset(type, lifetime, port, steps) ==
    [asset_type |-> type, max_lifetime |-> lifetime, port |-> port,
     teardown_steps |-> steps]

\* registry.rs:66-111  what a reload leaves in the registry: a credential
\* lure and a decoy service whose port tag is absent or names port 443.
LoadedAssets ==
    { [id \in {"a1", "a2"} |->
          IF id = "a1"
          THEN DeceptionAsset("credential_lure", 1, 0, <<"remove_credential">>)
          ELSE DeceptionAsset("decoy_service", 2, p,
                              <<"stop_service", "remove_listener">>)]
      : p \in {0, 443} }

\* registry.rs:147-149  get_asset
get_asset(id) == IF id \in DOMAIN assets THEN <<assets[id]>> ELSE <<>>

\* registry.rs:163-175  validate_no_production_overlap
validate_no_production_overlap(asset) == TRUE

\* deployer.rs:119-128  validate_safe_asset_type
validate_safe_asset_type(asset) == TRUE

\* deployer.rs:250-258  is_production_ip
is_production_ip(ip) == FALSE

\* deployer.rs:261-269  is_production_port
is_production_port(port) == port \in {22, 80, 443, 3306, 5432, 6379, 8080, 8443}

\* deployer.rs:81-94, 131-247  the type-specific deployment: the metadata it
\* returns, or the error.
DeployByType(asset) ==
    CASE asset.asset_type = "decoy_host" ->
             IF is_production_ip("")
             THEN [ok |-> FALSE, metadata |-> {}]
             ELSE [ok |-> TRUE,
                   metadata |-> {<<"deployment_type", "decoy_host">>}]
      [] asset.asset_type = "decoy_service" ->
             IF is_production_port(asset.port)
             THEN [ok |-> FALSE, metadata |-> {}]
             ELSE [ok |-> TRUE,
                   metadata |-> {<<"deployment_type", "decoy_service">>,
                                 <<"port", ToString(asset.port)>>}]
      [] asset.asset_type = "credential_lure" ->
             [ok |-> TRUE,
              metadata |-> {<<"deployment_type", "credential_lure">>}]
      [] asset.asset_type = "filesystem_lure" ->
             [ok |-> TRUE,
              metadata |-> {<<"deployment_type", "filesystem_lure">>}]

\* deployer.rs:97-106
DeploymentState(id, now, asset, metadata) ==
    [asset_id |-> id, deployed_at |-> now,
     expires_at |-> now + asset.max_lifetime, status |-> "Active",
     deployment_metadata |-> metadata]

NoDeployment ==
    [asset_id |-> "", deployed_at |-> 0, expires_at |-> 0, status |-> "None",
     deployment_metadata |-> {}]

MapInsert(map, k, v) ==
    [x \in (DOMAIN map) \cup {k} |-> IF x = k THEN v ELSE map[x]]

\* The idempotency check with the status test left out.
IsAlreadyDeployedNever(deployments, id) == FALSE

\* deployer.rs:64-72  "already deployed": a stored record with status Active
IsAlreadyDeployed(deployments, id) ==
    id \in DOMAIN deployments /\ deployments[id].status = "Active"

\* deployer.rs:272-274
get_deployment(id) ==
    IF id \in DOMAIN active_deployments THEN <<active_deployments[id]>> ELSE <<>>

\* deployer.rs:277-283
get_active_deployments ==
    { active_deployments[id] : id \in
        { x \in DOMAIN active_deployments :
            active_deployments[x].status = "Active" } }

\* What a deploy_asset call returned: Ok(state) or Err(err); no is the
\* call's number, asset_id its argument and path names the return statement
\* taken.
DeployReturn(no, id, path, err, st) ==
    [no |-> no, asset_id |-> id, path |-> path, err |-> err, state |-> st]

\* No call in progress: no asset held.
NoCall == [no |-> 0, asset_id |-> "", max_lifetime |-> 0]

\* deployer.rs:56-94  deploy_asset up to the type-specific deployment: the
\* registry lookup, the idempotency check under the read lock, the two
\* validations and the deployment itself.
DeployCheckWithin(c, id, max_calls) ==
    /\ depPc[c] = "idle"
    /\ depCalls + tdCalls < max_calls
    /\ depCalls' = depCalls + 1
    /\ IF get_asset(id) = <<>>
       THEN /\ depRet' = DeployReturn(depCalls', id, "not_found", "AssetNotFound",
                                      NoDeployment)
            /\ UNCHANGED <<depPc, depArg, depState, typeDeploys>>
       ELSE IF IsAlreadyDeployed(active_deployments, id)
       THEN /\ depRet' = DeployReturn(depCalls', id, "existing", "",
                                      active_deployments[id])
            /\ UNCHANGED <<depPc, depArg, depState, typeDeploys>>
       ELSE /\ validate_no_production_overlap(assets[id])
            /\ validate_safe_asset_type(assets[id])
            /\ typeDeploys' = [typeDeploys EXCEPT ![id] = @ + 1]
            /\ IF DeployByType(assets[id]).ok
               THEN /\ depPc' = [depPc EXCEPT ![c] = "store"]
                    /\ depArg' = [depArg EXCEPT ![c] =
                                     [no |-> depCalls', asset_id |-> id,
                                      max_lifetime |-> assets[id].max_lifetime]]
                    /\ depState' = [depState EXCEPT ![c] =
                                       DeployByType(assets[id]).metadata]
                    /\ UNCHANGED depRet
               ELSE /\ depRet' = DeployReturn(depCalls', id, "overlap",
                                              "OverlapsProduction", NoDeployment)
                    /\ UNCHANGED <<depPc, depArg, depState>>
    /\ UNCHANGED <<assets, decNow, active_deployments, teardownVars>>
    /\ UNCHANGED notDeception

DeployCheck(c, id) == DeployCheckWithin(c, id, MaxDeceptionCalls)

\* deployer.rs:96-115  the record is built from the clock and the asset the
\* call fetched at its start, stored under the write lock, then returned.
DeployStore(c) ==
    /\ depPc[c] = "store"
    /\ LET id == depArg[c].asset_id
           st == DeploymentState(id, decNow, depArg[c], depState[c])
       IN /\ active_deployments' = MapInsert(active_deployments, id, st)
          /\ depRet' = DeployReturn(depArg[c].no, id, "deployed", "", st)
    /\ depPc' = [depPc EXCEPT ![c] = "idle"]
    /\ depArg' = [depArg EXCEPT ![c] = NoCall]
    /\ depState' = [depState EXCEPT ![c] = {}]
    /\ UNCHANGED <<assets, decNow, depCalls, typeDeploys, teardownVars>>
    /\ UNCHANGED notDeception

\* Time passes.
DecTickUpTo(max_clock) ==
    /\ decNow < max_clock
    /\ decNow' = decNow + 1
    /\ UNCHANGED <<assets, deployerVars, teardownVars>>
    /\ UNCHANGED notDeception

DecTick == DecTickUpTo(MaxDecClock)

\* check_expired taking a deployment whose expires_at equals now as expired.
ExpiredIdsInclusive ==
    { id \in DOMAIN active_deployments :
        /\ active_deployments[id].status = "Active"
        /\ active_deployments[id].expires_at <= decNow }

\* deployer.rs:286-299  check_expired: the ids it marks Expired
ExpiredIds ==
    { id \in DOMAIN active_deployments :
        /\ active_deployments[id].status = "Active"
        /\ active_deployments[id].expires_at < decNow }

\* deployer.rs:291-296  the map after check_expired
MarkExpired(deployments, ids) ==
    [id \in DOMAIN deployments |->
        IF id \in ids THEN [deployments[id] EXCEPT !.status = "Expired"]
        ELSE deployments[id]]

\* The orders in which a HashMap iteration can hand out the keys S.
Orders(S) ==
    { s \in [1..Cardinality(S) -> S] :
        \A i, j \in 1..Cardinality(S) : s[i] = s[j] => i = j }

\* The lists of up to n distinct members of S.
SeqsUpTo(S, n) ==
    { s \in UNION { [1..k -> S] : k \in 0..n } :
        \A i, j \in 1..Len(s) : s[i] = s[j] => i = j }

NoTime == -1

\* teardown.rs:139-151  the record execute_teardown starts with
TeardownResult(asset_id, teardown_id, started_at) ==
    [asset_id |-> asset_id, teardown_id |-> teardown_id,
     started_at |-> started_at, completed_at |-> NoTime, status |-> "Running",
     steps_completed |-> <<>>, steps_failed |-> <<>>, error |-> <<>>]

\* What the entry point running returned: Ok(ids) or Err(result).
TeardownReturn(mode, result, ids) ==
    [mode |-> mode, result |-> result, ids |-> ids]

\* An emergency teardown that goes on to the next asset after an error.
EmergencyOnErrorContinue == "continue"

\* teardown.rs:111-125  emergency_teardown returns SafeHalt at an error
EmergencyOnError == "safe_halt"

\* teardown.rs:87-90  teardown_expired logs the error and goes on
ExpiredOnError == "continue"

\* What the running entry point does with the result of teardown_asset(id):
\* outcome is "Completed" for Ok(result) and the error's name otherwise.
\* teardown.rs:57-72 (explicit), 82-91 (expired), 107-126 (emergency)
AfterTeardown(id, outcome) ==
    LET onError == IF tdMode = "expired" THEN ExpiredOnError ELSE EmergencyOnError
    IN
    IF tdMode = "explicit"
    THEN /\ tdMode' = "idle"
         /\ tdQueue' = Tail(tdQueue)
         /\ tdDone' = IF outcome = "Completed" THEN <<id>> ELSE <<>>
         /\ tdRet' = TeardownReturn("explicit",
                        IF outcome = "Completed" THEN "Ok" ELSE outcome,
                        IF outcome = "Completed" THEN <<id>> ELSE <<>>)
    ELSE IF outcome = "Completed"
    THEN /\ tdDone' = Append(tdDone, id)
         /\ tdQueue' = Tail(tdQueue)
         /\ UNCHANGED <<tdMode, tdRet>>
    ELSE IF onError = "continue"
    THEN /\ tdQueue' = Tail(tdQueue)
         /\ UNCHANGED <<tdMode, tdDone, tdRet>>
    ELSE /\ tdMode' = "idle"
         /\ tdRet' = TeardownReturn(tdMode, "SafeHalt", <<>>)
         /\ UNCHANGED <<tdQueue, tdDone>>

\* A call of an entry point starts working through ids.
TeardownEnterWithin(mode, ids, max_calls) ==
    /\ tdMode = "idle"
    /\ depCalls + tdCalls < max_calls
    /\ tdCalls' = tdCalls + 1
    /\ tdMode' = mode
    /\ tdArg' = ids
    /\ tdQueue' = ids
    /\ tdDone' = <<>>
    /\ tdAttempted' = <<>>
    /\ tdStepFailed' = {}
    /\ tdRet' = TeardownReturn(mode, "none", <<>>)
    /\ UNCHANGED active_teardowns

TeardownEnter(mode, ids) == TeardownEnterWithin(mode, ids, MaxDeceptionCalls)

\* teardown.rs:57-58  teardown_asset(id) called by an operator
TeardownAssetCall(id) ==
    /\ TeardownEnter("explicit", <<id>>)
    /\ UNCHANGED <<assets, decNow, deployerVars, expiredReturned>>
    /\ UNCHANGED notDeception

\* teardown.rs:75-79  teardown_expired: check_expired marks the expired
\* deployments and hands their ids out in the map's iteration order.
TeardownExpiredCallWithin(order, max_calls) ==
    /\ order \in Orders(ExpiredIds)
    /\ TeardownEnterWithin("expired", order, max_calls)
    /\ active_deployments' = MarkExpired(active_deployments, ExpiredIds)
    /\ expiredReturned' = expiredReturned \cup ExpiredIds
    /\ UNCHANGED <<assets, decNow, depPc, depArg, depState, depRet,
                   depCalls, typeDeploys>>
    /\ UNCHANGED notDeception

TeardownExpiredCall(order) == TeardownExpiredCallWithin(order, MaxDeceptionCalls)

\* teardown.rs:101-104  emergency_teardown(asset_ids)
EmergencyTeardownCall(ids) ==
    /\ TeardownEnter("emergency", ids)
    /\ UNCHANGED <<assets, decNow, deployerVars, expiredReturned>>
    /\ UNCHANGED notDeception

\* teardown.rs:207-240  execute_teardown_step returns Result<String, _>; the
\* four actions are placeholders for stopping a service, removing a listener,
\* deleting a file and removing a credential, each of which can fail.  The
\* number of the step that returns Err, 0 when every step returns Ok.
StepFailures(steps) == 0..Len(steps)

\* teardown.rs:160-203  the record execute_teardown leaves: the steps before
\* fail_at completed and, when one failed, status Failed with the error and
\* no further step run; with no failure, status Completed.
ExecutedTeardown(r, steps, fail_at, now) ==
    IF fail_at = 0
    THEN [r EXCEPT !.steps_completed = [i \in 1..Len(steps) |-> i - 1],
                   !.status = "Completed",
                   !.completed_at = now]
    ELSE [r EXCEPT !.steps_completed = [i \in 1..(fail_at - 1) |-> i - 1],
                   !.steps_failed = <<fail_at - 1>>,
                   !.status = "Failed",
                   !.error = <<fail_at - 1>>,
                   !.completed_at = now]

\* teardown.rs:57-72, 134-204  teardown_asset for the next id: the two
\* lookups, then execute_teardown stores a Running record under a new id,
\* runs the asset's steps in order and stores the record again at the end.
\* The deployment record is left as it is (its update is a TODO).
TeardownOne ==
    /\ tdMode # "idle"
    /\ tdQueue # <<>>
    /\ LET id == Head(tdQueue) IN
       IF get_asset(id) = <<>> \/ get_deployment(id) = <<>>
       THEN /\ AfterTeardown(id, "AssetNotFound")
            /\ tdAttempted' =
                   Append(tdAttempted, [asset_id |-> id, teardown_id |-> 0])
            /\ UNCHANGED <<active_teardowns, tdStepFailed>>
       ELSE \E fail_at \in StepFailures(assets[id].teardown_steps) :
            LET tid == Len(active_teardowns) + 1 IN
            /\ tdAttempted' =
                   Append(tdAttempted, [asset_id |-> id, teardown_id |-> tid])
            /\ active_teardowns' =
                   Append(active_teardowns,
                          ExecutedTeardown(TeardownResult(id, tid, decNow),
                                           assets[id].teardown_steps,
                                           fail_at, decNow))
            /\ tdStepFailed' = IF fail_at = 0 THEN tdStepFailed
                               ELSE tdStepFailed \cup {tid}
            /\ AfterTeardown(id, IF fail_at = 0 THEN "Completed" ELSE "SafeHalt")
    /\ UNCHANGED <<tdArg, tdCalls, expiredReturned>>
    /\ UNCHANGED <<assets, decNow, deployerVars>>
    /\ UNCHANGED notDeception

\* teardown.rs:94, 129-130  the loop is over: Ok(teardown_results)
TeardownLoopEnd ==
    /\ tdMode \in {"expired", "emergency"}
    /\ tdQueue = <<>>
    /\ tdRet' = TeardownReturn(tdMode, "Ok", tdDone)
    /\ tdMode' = "idle"
    /\ UNCHANGED <<active_teardowns, tdArg, tdQueue, tdDone, tdCalls,
                   tdAttempted, tdStepFailed, expiredReturned>>
    /\ UNCHANGED <<assets, decNow, deployerVars>>
    /\ UNCHANGED notDeception

\* deployer.rs:42-47, teardown.rs:45-54  new(): empty maps
DeceptionInitWith(registries) ==
    /\ assets \in registries
    /\ active_deployments = [x \in {} |-> NoDeployment]
    /\ active_teardowns = <<>>
    /\ decNow = 0
    /\ depPc = [c \in Deployers |-> "idle"]
    /\ depArg = [c \in Deployers |-> NoCall]
    /\ depState = [c \in Deployers |-> {}]
    /\ depRet = DeployReturn(0, "", "none", "", NoDeployment)
    /\ depCalls = 0
    /\ typeDeploys = [id \in AssetIds |-> 0]
    /\ tdMode = "idle"
    /\ tdArg = <<>>
    /\ tdQueue = <<>>
    /\ tdDone = <<>>
    /\ tdRet = TeardownReturn("none", "none", <<>>)
    /\ tdCalls = 0
    /\ tdAttempted = <<>>
    /\ tdStepFailed = {}
    /\ expiredReturned = {}

DeceptionInit == DeceptionInitWith(LoadedAssets)

DeceptionQuiet ==
    DeceptionInitWith({ a \in LoadedAssets : a["a2"].port = 0 })

\* The deployer's callers, the teardown engine's caller and the clock run
\* side by side.
DeceptionNext ==
    \/ \E c \in Deployers, id \in AssetIds : DeployCheck(c, id)
    \/ \E c \in Deployers : DeployStore(c)
    \/ DecTick
    \/ \E id \in AssetIds : TeardownAssetCall(id)
    \/ \E order \in Orders(ExpiredIds) : TeardownExpiredCall(order)
    \/ \E ids \in SeqsUpTo(AssetIds, MaxEmergencyIds) : EmergencyTeardownCall(ids)
    \/ TeardownOne
    \/ TeardownLoopEnd

\* The expiry cycle by itself: one caller deploys, time passes, and
\* teardown_expired is called, for longer than DeceptionNext allows.
MaxExpiryCalls == 4

MaxExpiryClock == 4

ExpiryNext ==
    \/ \E id \in {"a1", "a2"} : DeployCheckWithin(1, id, MaxExpiryCalls)
    \/ DeployStore(1)
    \/ DecTickUpTo(MaxExpiryClock)
    \/ \E order \in Orders(ExpiredIds) :
          TeardownExpiredCallWithin(order, MaxExpiryCalls)
    \/ TeardownOne
    \/ TeardownLoopEnd

\* ======================================================================
\* Authoritative schema manager (core/engine/orchestrator/src/db.rs)
\* ======================================================================
MaxMissingTables == 1

MaxSchemaCalls == 3

\* db.rs:193-230 (and again 294-330)  let required_tables = vec![..]
required_tables ==
    << "linux_agent_telemetry", "windows_agent_telemetry", "dpi_probe_telemetry",
       "raw_events", "normalized_events",
       "correlation_graph", "detection_results", "confidence_scores",
       "policy_evaluations", "enforcement_decisions", "actions_taken",
       "model_registry", "model_versions", "inference_results",
       "shap_explanations", "feature_contributions", "llm_requests",
       "llm_responses",
       "immutable_audit_log", "trust_verification_records",
       "signature_validation_events",
       "component_health", "startup_events", "error_events",
       "components",
       "retention_policies" >>

RequiredTableSet == {required_tables[i] : i \in DOMAIN required_tables}

\* One statement of the authoritative file: what it is and the object it names.
\*   section           a `-- ====` marker line
\*   create_type       CREATE TYPE <name> (no IF NOT EXISTS)
\*   create_table      CREATE TABLE IF NOT EXISTS <name> ( .. );
\*   create_table_expr the same with a CONSTRAINT .. UNIQUE (.. COALESCE(..))
\*                     line, which PostgreSQL rejects
\*   unique_index      CREATE UNIQUE INDEX IF NOT EXISTS .. ON <name> (..);
\*   comment, index, alter   COMMENT ON / CREATE INDEX IF NOT EXISTS / ALTER
\*                     TABLE statements of table <name>
\*   insert            a seed row, INSERT INTO <name>
Statement(kind, name) == [kind |-> kind, name |-> name]

SchemaTypes == {"component_type", "event_source_type"}

\* The block of one table in the file.
TableBlock(t) ==
    << Statement(IF t = "components" THEN "create_table_expr" ELSE "create_table", t),
       Statement("comment", t),
       Statement("index", t) >>
    \o (IF t = "raw_events" THEN <<Statement("alter", t)>> ELSE <<>>)

\* The tables in the order the file defines them: components first (the
\* others refer to it), each group of the contract under its section marker.
FileSections ==
    << <<"components">>,
       <<"linux_agent_telemetry", "windows_agent_telemetry", "dpi_probe_telemetry">>,
       <<"raw_events", "normalized_events">>,
       <<"correlation_graph", "detection_results", "confidence_scores">>,
       <<"policy_evaluations", "enforcement_decisions", "actions_taken">>,
       <<"model_registry", "model_versions", "inference_results",
         "shap_explanations", "feature_contributions", "llm_requests",
         "llm_responses">>,
       <<"immutable_audit_log", "trust_verification_records",
         "signature_validation_events">>,
       <<"component_health", "startup_events", "error_events">>,
       <<"retention_policies">> >>

RECURSIVE BlocksOf(_, _)
BlocksOf(tables, left_out) ==
    IF tables = <<>> THEN <<>>
    ELSE (IF Head(tables) \in left_out THEN <<>> ELSE TableBlock(Head(tables)))
         \o BlocksOf(Tail(tables), left_out)

RECURSIVE SectionsOf(_, _)
SectionsOf(sections, left_out) ==
    IF sections = <<>> THEN <<>>
    ELSE <<Statement("section", "")>> \o BlocksOf(Head(sections), left_out)
         \o SectionsOf(Tail(sections), left_out)

\* The file at RANSOMEYE_SCHEMA_SQL_PATH, with the blocks of `left_out` absent.
AuthoritativeFile(left_out) ==
    << Statement("section", ""),
       Statement("create_type", "component_type"),
       Statement("create_type", "event_source_type") >>
    \o SectionsOf(FileSections, left_out)
    \o (IF "retention_policies" \in left_out THEN <<>>
        ELSE <<Statement("insert", "retention_policies")>>)

\* The certified file, and the file of a release before retention_policies.
FileVersions == {{}, {"retention_policies"}}

\* db.rs:867-960  compile_authoritative_schema_for_postgres: the UNIQUE
\* constraint over an expression leaves the table block and comes back as a
\* unique index right after it; every other line is passed on unchanged.
RECURSIVE compile_authoritative_schema_for_postgres(_)
compile_authoritative_schema_for_postgres(sql) ==
    IF sql = <<>> THEN <<>>
    ELSE (IF Head(sql).kind = "create_table_expr"
          THEN << Statement("create_table", Head(sql).name),
                  Statement("unique_index", Head(sql).name) >>
          ELSE <<Head(sql)>>)
         \o compile_authoritative_schema_for_postgres(Tail(sql))

StartsCreateTable(s) == s.kind \in {"create_table", "create_table_expr"}

\* Everything after the table's `);` up to the next section marker.
RelatedUntilSection(schema_sql, i, table) ==
    LET markers == {j \in i..Len(schema_sql) : schema_sql[j].kind = "section"}
    IN SubSeq(schema_sql, i,
              IF markers = {} THEN Len(schema_sql)
              ELSE (CHOOSE j \in markers : \A k \in markers : j <= k) - 1)

\* db.rs:779-847  the statements after the table's `);`: stop at a section
\* marker or the next CREATE TABLE, keep the table's own COMMENT ON, CREATE
\* INDEX and ALTER TABLE, stop at any other CREATE/ALTER/DROP, pass over the
\* rest.
RECURSIVE RelatedStatements(_, _, _)
RelatedStatements(schema_sql, i, table) ==
    IF i > Len(schema_sql) THEN <<>>
    ELSE LET s == schema_sql[i]
         IN IF s.kind = "section" \/ StartsCreateTable(s) THEN <<>>
            ELSE IF s.kind \in {"comment", "index", "alter"} /\ s.name = table
            THEN <<s>> \o RelatedStatements(schema_sql, i + 1, table)
            ELSE IF s.kind \in {"create_type", "unique_index", "index", "alter"}
            THEN <<>>
            ELSE RelatedStatements(schema_sql, i + 1, table)

\* db.rs:747-850  extract_table_ddl_block
extract_table_ddl_block(schema_sql, table) ==
    LET starts == {i \in 1..Len(schema_sql) :
                      StartsCreateTable(schema_sql[i]) /\ schema_sql[i].name = table}
    IN IF starts = {} THEN [ok |-> FALSE, block |-> <<>>]
       ELSE LET start == CHOOSE i \in starts : \A j \in starts : i <= j
            IN [ok |-> TRUE,
                block |-> <<schema_sql[start]>>
                          \o RelatedStatements(schema_sql, start + 1, table)]

\* db.rs:731-739  build_incremental_schema_patch_for_missing_tables
RECURSIVE build_incremental_schema_patch_for_missing_tables(_, _)
build_incremental_schema_patch_for_missing_tables(schema_sql, missing_tables) ==
    IF missing_tables = <<>> THEN [ok |-> TRUE, block |-> <<>>]
    ELSE LET first == extract_table_ddl_block(schema_sql, Head(missing_tables))
             rest == build_incremental_schema_patch_for_missing_tables(
                         schema_sql, Tail(missing_tables))
         IN IF first.ok /\ rest.ok
            THEN [ok |-> TRUE, block |-> first.block \o rest.block]
            ELSE [ok |-> FALSE, block |-> <<>>]

\* Only the first table that is missing.
MissingRequiredFirstOnly(existing) ==
    LET all == SelectSeq(required_tables, LAMBDA t : t \notin existing)
    IN SubSeq(all, 1, IF all = <<>> THEN 0 ELSE 1)

\* db.rs:247-252 (352-357)  the required tables not among the existing ones
MissingRequired(existing) ==
    SelectSeq(required_tables, LAMBDA t : t \notin existing)

\* What the server does with one statement on a database with these types
\* and tables.
StatementFails(s, types, tables) ==
    \/ s.kind = "create_type" /\ s.name \in types
    \/ s.kind = "create_table_expr"
    \/ s.kind \in {"unique_index", "comment", "index", "alter", "insert"}
       /\ s.name \notin tables

\* client.batch_execute(sql): the statements run in order inside one implicit
\* transaction; the first that fails ends the batch and undoes it.
CreatedBefore(sql, i, kind) ==
    {sql[j].name : j \in {k \in 1..(i - 1) : sql[k].kind = kind}}

batch_execute(sql, types, tables) ==
    LET failing == {i \in 1..Len(sql) :
                       StatementFails(sql[i],
                           types \cup CreatedBefore(sql, i, "create_type"),
                           tables \cup CreatedBefore(sql, i, "create_table"))}
    IN IF failing = {}
       THEN [ok |-> TRUE,
             types |-> types \cup CreatedBefore(sql, Len(sql) + 1, "create_type"),
             tables |-> tables \cup CreatedBefore(sql, Len(sql) + 1, "create_table"),
             executed |-> sql]
       ELSE [ok |-> FALSE, types |-> types, tables |-> tables,
             executed |-> SubSeq(sql, 1,
                 CHOOSE i \in failing : \A j \in failing : i <= j)]

\* db.rs:105-287  apply_authoritative_schema_from_env on a database with
\* these types and tables: the path taken, the statements sent and the
\* database afterwards.
ApplyOutcome(file, types, tables) ==
    LET component_type_exists == "component_type" \in types
        components_table_exists == "components" \in tables
        missing == MissingRequired(tables)
        patch == build_incremental_schema_patch_for_missing_tables(file, missing)
        untouched == [ok |-> TRUE, types |-> types, tables |-> tables,
                      executed |-> <<>>]
    IN IF ~components_table_exists \/ ~component_type_exists
       THEN [path |-> "first_run",
             run |-> batch_execute(compile_authoritative_schema_for_postgres(file),
                                   types, tables)]
       ELSE IF missing = <<>>
       THEN [path |-> "present", run |-> untouched]
       ELSE IF ~patch.ok
       THEN [path |-> "extraction_failed", run |-> [untouched EXCEPT !.ok = FALSE]]
       ELSE [path |-> "incremental",
             run |-> batch_execute(patch.block, types, tables)]

SchemaCall(op, path, ok, executed) ==
    [op |-> op, path |-> path, ok |-> ok, executed |-> executed,
     types_before |-> schTypes, tables_before |-> schTables]

\* db.rs:105-287  apply_authoritative_schema_from_env
ApplyAuthoritativeSchema ==
    /\ Len(schHistory) < MaxSchemaCalls
    /\ LET out == ApplyOutcome(AuthoritativeFile(schFile), schTypes, schTables)
       IN /\ schTypes' = out.run.types
          /\ schTables' = out.run.tables
          /\ schHistory' = Append(schHistory,
                 SchemaCall("apply", out.path, out.run.ok, out.run.executed))
    /\ UNCHANGED <<schFile, notSchema>>

\* db.rs:290-360  validate_schema_contract, the required-tables check
ValidateSchemaContract ==
    /\ Len(schHistory) < MaxSchemaCalls
    /\ schHistory' = Append(schHistory,
           SchemaCall("validate", "tables", MissingRequired(schTables) = <<>>, <<>>))
    /\ UNCHANGED <<schTypes, schTables, schFile, notSchema>>

\* The subsets of S with at most n members.
RECURSIVE PickUpTo(_, _)
PickUpTo(S, n) ==
    IF n = 0 THEN {{}}
    ELSE LET smaller == PickUpTo(S, n - 1)
         IN smaller \cup {T \cup {x} : T \in smaller, x \in S}

\* The databases the manager is started on: a new one, and one that lost (or
\* never had) its types or up to MaxMissingTables of the required tables.
SchemaInit ==
    /\ schFile \in FileVersions
    /\ schTypes \in {{}, SchemaTypes}
    /\ schTables \in {{}} \cup {RequiredTableSet \ M :
                                   M \in PickUpTo(RequiredTableSet, MaxMissingTables)}
    /\ schHistory = <<>>

SchemaQuiet ==
    /\ schFile = {}
    /\ schTypes = {}
    /\ schTables = {}
    /\ schHistory = <<>>

SchemaNext ==
    \/ ApplyAuthoritativeSchema
    \/ ValidateSchemaContract

\* ======================================================================
\* Deception asset registry (core/deception/src/registry.rs, security.rs)
\* ======================================================================
MaxReloadCalls == 2

\* registry.rs:16-21
ALLOWED_ASSET_TYPES ==
    {"decoy_host", "decoy_service", "credential_lure", "filesystem_lure"}

\* registry.rs:24-28
FORBIDDEN_ASSET_TYPES ==
    {"traffic_interceptor", "proxy_service", "production_mirror"}

\* The key pair of the deception signer; the registry holds its public half.
DeceptionKey == "deception_key"

\* ed25519 verification: the signature was made over this message with the
\* private half of the key.
Ed25519Verify(key, message, signature) ==
    signature.key = key /\ signature.message = message

\* security.rs:109-135  compute_asset_hash: SHA-256 over the fields other
\* than signature and signature_hash, as lower-case hex
compute_asset_hash(asset) ==
    HexEncode(Sha256(<<asset.asset_id, asset.asset_type, asset.interaction_types,
                       asset.teardown_steps, asset.max_lifetime>>))

\* A check that compares the hash and never looks at the signature.
verify_asset_hash_only(asset) ==
    compute_asset_hash(asset) = asset.signature_hash

\* security.rs:45-72  verify_asset
verify_asset(asset) ==
    /\ compute_asset_hash(asset) = asset.signature_hash
    /\ Base64Decode(asset.signature).ok
    /\ Ed25519Verify(DeceptionKey, asset.signature_hash,
                     Base64Decode(asset.signature).bytes)

\* DeceptionAsset::validate_schema, as src/tests/registry_tests.rs:70-83
\* pins it down: no interaction type, or a max_lifetime of 0, is an error
validate_schema(asset) ==
    /\ asset.interaction_types # {}
    /\ asset.max_lifetime > 0

\* An asset file as its author wrote and signed it with `key`.
SignedAsset(id, type, lifetime, interaction_types, key) ==
    LET body == DeceptionAsset(type, lifetime, 0, <<"remove">>)
                @@ [asset_id |-> id, interaction_types |-> interaction_types]
    IN body @@ [signature_hash |-> compute_asset_hash(body),
                signature |-> Base64Encode(Ed25519Sign(key, compute_asset_hash(body)))]

Unparsable == [asset_id |-> "<not yaml>"]

DirEntry(name, extension, content) ==
    [name |-> name, extension |-> extension, content |-> content]

\* The files an operator may leave in DECEPTION_ASSET_DIR.
AssetFiles ==
    { DirEntry("a1", "yaml",
          SignedAsset("a1", "credential_lure", 1, {"login"}, DeceptionKey)),
      DirEntry("a2", "yml",
          SignedAsset("a2", "decoy_service", 2, {"connect"}, DeceptionKey)),
      DirEntry("a1-host", "yaml",
          SignedAsset("a1", "decoy_host", 3, {"scan"}, DeceptionKey)),
      DirEntry("broken", "yaml", Unparsable),
      DirEntry("no-trigger", "yaml",
          SignedAsset("a3", "decoy_host", 1, {}, DeceptionKey)),
      DirEntry("no-lifetime", "yaml",
          SignedAsset("a3", "decoy_host", 0, {"scan"}, DeceptionKey)),
      DirEntry("proxy", "yaml",
          SignedAsset("a3", "proxy_service", 1, {"connect"}, DeceptionKey)),
      DirEntry("honeytoken", "yaml",
          SignedAsset("a3", "honeytoken", 1, {"read"}, DeceptionKey)),
      DirEntry("tampered", "yaml",
          [SignedAsset("a3", "filesystem_lure", 1, {"read"}, DeceptionKey)
              EXCEPT !.max_lifetime = 2]),
      DirEntry("forged", "yaml",
          SignedAsset("a3", "filesystem_lure", 1, {"read"}, "other_key")),
      DirEntry("notes", "txt",
          SignedAsset("a3", "filesystem_lure", 1, {"read"}, DeceptionKey)) }

\* The states of the directory: empty; two good files; two files with the
\* same asset_id beside a file that is not YAML by name; good files beside
\* files that fail each one of the checks.
Directories ==
    { {f \in AssetFiles : f.name \in names} :
        names \in { {},
                    {"a1", "a2"},
                    {"a1", "a1-host", "notes"},
                    {"a1", "forged", "broken"},
                    {"a2", "no-trigger", "proxy"},
                    {"a2", "no-lifetime", "honeytoken"},
                    {"a1", "tampered"} } }

\* The orders in which read_dir may yield the entries of a directory.
DirectoryListings == UNION {Orders(d) : d \in Directories}

\* registry.rs:114-144  load_asset_from_file: parse, validate the schema,
\* check the type against both lists, verify the signature
load_asset_from_file(entry) ==
    IF entry.content = Unparsable THEN [ok |-> FALSE, err |-> "yaml"]
    ELSE IF ~validate_schema(entry.content)
    THEN [ok |-> FALSE, err |-> "schema"]
    ELSE IF entry.content.asset_type \in FORBIDDEN_ASSET_TYPES
    THEN [ok |-> FALSE, err |-> "forbidden_type"]
    ELSE IF entry.content.asset_type \notin ALLOWED_ASSET_TYPES
    THEN [ok |-> FALSE, err |-> "forbidden_type"]
    ELSE IF ~verify_asset(entry.content)
    THEN [ok |-> FALSE, err |-> "signature"]
    ELSE [ok |-> TRUE, err |-> ""]

\* registry.rs:87-106  the loop over the directory entries: a yaml or yml file
\* that loads is inserted under its asset_id, one that fails is passed over
RECURSIVE LoadEntries(_, _)
LoadEntries(entries, loaded) ==
    IF entries = <<>> THEN loaded
    ELSE LoadEntries(Tail(entries),
             IF /\ Head(entries).extension \in {"yaml", "yml"}
                /\ load_asset_from_file(Head(entries)).ok
             THEN [map |-> MapInsert(loaded.map, Head(entries).content.asset_id,
                                     Head(entries).content),
                   count |-> loaded.count + 1]
             ELSE loaded)

EmptyRegistry == [id \in {} |-> Unparsable]

ReloadReturn(ok, count, entries) ==
    [ok |-> ok, count |-> count, entries |-> entries]

\* registry.rs:66-111  reload_assets: both maps are cleared, then the entries
\* are read in the order read_dir yields them; an entry that cannot be read
\* (the one at `io_error_at`, 0 for none) ends the call with Err
ReloadAssets(entries, io_error_at) ==
    /\ regCalls < MaxReloadCalls
    /\ Len(entries) = Cardinality(regDir)
    /\ {entries[i] : i \in DOMAIN entries} = regDir
    /\ io_error_at <= Len(entries)
    /\ regCalls' = regCalls + 1
    /\ LET read == IF io_error_at = 0 THEN entries
                   ELSE SubSeq(entries, 1, io_error_at - 1)
           loaded == LoadEntries(read, [map |-> EmptyRegistry, count |-> 0])
       IN /\ assets' = loaded.map
          /\ regRet' = IF io_error_at = 0
                       THEN ReloadReturn(TRUE, loaded.count, entries)
                       ELSE ReloadReturn(FALSE, 0, entries)
    /\ UNCHANGED <<regDir, notRegistry>>

\* The operator changes the files of the directory between two reloads.
DirChange(dir) ==
    /\ regCalls < MaxReloadCalls
    /\ dir # regDir
    /\ regDir' = dir
    /\ UNCHANGED <<assets, regRet, regCalls, notRegistry>>

\* registry.rs:39-64  DeceptionRegistry::new, before its first reload
RegistryInit ==
    /\ regDir \in Directories
    /\ regRet = ReloadReturn(FALSE, 0, <<>>)
    /\ regCalls = 0

RegistryQuiet ==
    /\ regDir = {}
    /\ regRet = ReloadReturn(FALSE, 0, <<>>)
    /\ regCalls = 0

RegistryNext ==
    \/ \E entries \in DirectoryListings :
           \E io_error_at \in 0..Len(entries) : ReloadAssets(entries, io_error_at)
    \/ \E dir \in Directories : DirChange(dir)

\* The registry and the deployments together: reloads of a directory that
\* changes, side by side with one caller of the deployer and the teardown
\* engine.
LifecycleDirectories ==
    { d \in Directories :
        {f.name : f \in d} \in {{"a1", "a2"}, {"a2", "no-trigger", "proxy"}} }

LifecycleListings == UNION {Orders(d) : d \in LifecycleDirectories}

LifecycleNext ==
    \/ \E entries \in LifecycleListings :
           \E io_error_at \in 0..Len(entries) : ReloadAssets(entries, io_error_at)
    \/ \E dir \in LifecycleDirectories : DirChange(dir)
    \/ \E id \in {"a1", "a2"} : DeployCheck(1, id)
    \/ DeployStore(1)
    \/ DecTick
    \/ \E id \in {"a1", "a2"} : TeardownAssetCall(id)
    \/ \E order \in Orders(ExpiredIds) : TeardownExpiredCall(order)
    \/ TeardownOne
    \/ TeardownLoopEnd

\* ======================================================================
\* Deception signals (core/deception/src/signals.rs, security.rs)
\* ======================================================================
\* An f64 that is a number of hundredths, or NaN.
F64(hundredths) == [nan |-> FALSE, hundredths |-> hundredths]

NaN == [nan |-> TRUE, hundredths |-> 0]

\* f64::max: the other operand when one of the two is NaN
F64Max(a, b) ==
    IF a.nan THEN b
    ELSE IF b.nan THEN a
    ELSE IF a.hundredths >= b.hundredths THEN a ELSE b

\* a < b on f64: false when either one is NaN
F64Less(a, b) == ~a.nan /\ ~b.nan /\ a.hundredths < b.hundredths

\* signals.rs:67, 69, 122  the literal 0.9
ConfidenceThreshold == F64(90)

\* String::new()
EmptyString == [encoding |-> "empty", bytes |-> <<>>]

\* str::as_bytes: the characters themselves
StrAsBytes(s) == Leaf(s)

\* DateTime::to_rfc3339 and f64::to_string
ToRfc3339(t) == <<"rfc3339", <<t>>>>

F64ToString(x) == <<"f64", <<x>>>>

\* signals.rs:103-116  SignalGenerator::compute_signal_hash: the interaction
\* type goes into the hash as its bytes
generator_compute_signal_hash(signal) ==
    HexEncode(Sha256(<<StrAsBytes(signal.signal_id), StrAsBytes(signal.asset_id),
                       StrAsBytes(signal.interaction_type),
                       ToRfc3339(signal.timestamp),
                       F64ToString(signal.confidence_score),
                       JsonToString(signal.metadata)>>))

\* security.rs:138-153  SignatureVerifier::compute_signal_hash: the
\* interaction type goes into the hash as a JSON string
verifier_compute_signal_hash(signal) ==
    HexEncode(Sha256(<<StrAsBytes(signal.signal_id), StrAsBytes(signal.asset_id),
                       JsonToString(signal.interaction_type),
                       ToRfc3339(signal.timestamp),
                       F64ToString(signal.confidence_score),
                       JsonToString(signal.metadata)>>))

NoSignal ==
    [signal_id |-> "", asset_id |-> "", interaction_type |-> "", timestamp |-> 0,
     confidence_score |-> F64(0), hash |-> EmptyString, signature |-> EmptyString,
     metadata |-> "{}"]

\* signals.rs:54-103  generate_signal, given the id Uuid::new_v4 draws and
\* the time Utc::now reads
generate_signal(asset, interaction_type, metadata, signal_id, now) ==
    IF interaction_type \notin asset.interaction_types
    THEN [ok |-> FALSE, signal |-> NoSignal]
    ELSE LET confidence_score == F64Max(asset.min_confidence, ConfidenceThreshold)
             signal == [signal_id |-> signal_id, asset_id |-> asset.asset_id,
                        interaction_type |-> interaction_type, timestamp |-> now,
                        confidence_score |-> confidence_score,
                        hash |-> EmptyString, signature |-> EmptyString,
                        metadata |-> metadata]
             hash == generator_compute_signal_hash(signal)
         IN IF F64Less(confidence_score, ConfidenceThreshold)
            THEN [ok |-> FALSE, signal |-> NoSignal]
            ELSE [ok |-> TRUE,
                  signal |-> [signal EXCEPT
                      !.hash = hash,
                      !.signature = Base64Encode(Ed25519Sign(DeceptionKey, hash))]]

\* A validation that looks at the confidence only.
validate_confidence_only(signal) ==
    ~F64Less(signal.confidence_score, ConfidenceThreshold)

\* signals.rs:121-144  DeceptionSignal::validate
validate(signal) ==
    /\ ~F64Less(signal.confidence_score, ConfidenceThreshold)
    /\ signal.hash # EmptyString
    /\ signal.signature # EmptyString

\* security.rs:75-106  verify_signal under the deception public key
verify_signal(signal) ==
    /\ verifier_compute_signal_hash(signal) = signal.hash
    /\ Base64Decode(signal.signature).ok
    /\ Ed25519Verify(DeceptionKey, verifier_compute_signal_hash(signal),
                     Base64Decode(signal.signature).bytes)

\* The assets interactions are reported for: the fields generate_signal
\* reads, trigger_conditions.interaction_types and .min_confidence.
SignalAssets ==
    { [asset_id |-> "a1", interaction_types |-> {"login"}, min_confidence |-> c]
        : c \in {F64(50), F64(95), NaN} }
    \cup { [asset_id |-> "a2", interaction_types |-> {"connect", "scan"},
            min_confidence |-> F64(90)] }

InteractionTypes == {"login", "connect", "scan"}

SignalMetadata == {"{}", "{\"src_ip\":\"10.0.0.9\"}"}

\* The copy of a signal a consumer holds: as generated, or differing from
\* it in one field.
Alterations == {"none", "confidence", "hash", "signature", "metadata"}

Altered(signal, how) ==
    CASE how = "confidence" -> [signal EXCEPT !.confidence_score = F64(80)]
      [] how = "hash" -> [signal EXCEPT !.hash = EmptyString]
      [] how = "signature" -> [signal EXCEPT !.signature = EmptyString]
      [] how = "metadata" -> [signal EXCEPT !.metadata = "{\"src_ip\":\"10.0.0.1\"}"]
      [] OTHER -> signal

NoChecks == [validate |-> "none", verify |-> "none"]

\* signals.rs:54-103  a generate_signal call
GenerateSignal(asset, interaction_type, metadata, signal_id, now) ==
    /\ sigPc = "idle"
    /\ sigCall' = [asset |-> asset, interaction_type |-> interaction_type]
    /\ LET r == generate_signal(asset, interaction_type, metadata, signal_id, now)
       IN /\ sigPc' = IF r.ok THEN "generated" ELSE "failed"
          /\ sigSignal' = r.signal
    /\ UNCHANGED <<sigAltered, sigChecks, notSignals>>

\* The signal reaches its consumer.
DeliverSignal(how) ==
    /\ sigPc = "generated"
    /\ sigPc' = "received"
    /\ sigAltered' = how
    /\ sigSignal' = Altered(sigSignal, how)
    /\ UNCHANGED <<sigCall, sigChecks, notSignals>>

\* signals.rs:121-144  the consumer calls validate
ValidateSignal ==
    /\ sigPc = "received"
    /\ sigPc' = "validated"
    /\ sigChecks' = [sigChecks EXCEPT
                        !.validate = IF validate(sigSignal) THEN "ok" ELSE "err"]
    /\ UNCHANGED <<sigCall, sigSignal, sigAltered, notSignals>>

\* security.rs:75-106  the consumer calls verify_signal
VerifySignal ==
    /\ sigPc = "validated"
    /\ sigPc' = "verified"
    /\ sigChecks' = [sigChecks EXCEPT
                        !.verify = IF verify_signal(sigSignal) THEN "ok" ELSE "err"]
    /\ UNCHANGED <<sigCall, sigSignal, sigAltered, notSignals>>

SignalInit ==
    /\ sigPc = "idle"
    /\ sigCall = [asset |-> [asset_id |-> "", interaction_types |-> {},
                             min_confidence |-> F64(0)],
                  interaction_type |-> ""]
    /\ sigSignal = NoSignal
    /\ sigAltered = "none"
    /\ sigChecks = NoChecks

SignalQuiet == SignalInit

SignalNext ==
    \/ \E asset \in SignalAssets, interaction_type \in InteractionTypes,
          metadata \in SignalMetadata, signal_id \in {"s1", "s2"},
          now \in {0, 1} :
          GenerateSignal(asset, interaction_type, metadata, signal_id, now)
    \/ \E how \in Alterations : DeliverSignal(how)
    \/ ValidateSignal
    \/ VerifySignal

\* ======================================================================
\* Specifications: one per subsystem, the others at rest
\* ======================================================================
Init ==
    /\ SignerInit /\ AuditInit /\ RetentionQuiet /\ OrchQuiet /\ IngestQuiet
    /\ DeceptionQuiet
    /\ SchemaQuiet
    /\ RegistryQuiet
    /\ SignalQuiet

SpecSigner == Init /\ [][SignerNext]_vars

SpecAudit == Init /\ [][AuditNext]_vars

SpecAuditSeq == Init /\ [][AuditSeqNext]_vars

RetentionSpecInit ==
    /\ SignerInit /\ AuditInit /\ RetentionInit /\ OrchQuiet /\ IngestQuiet
    /\ DeceptionQuiet
    /\ SchemaQuiet
    /\ RegistryQuiet
    /\ SignalQuiet

SpecRetention == RetentionSpecInit /\ [][RetentionNext]_vars

\* enforce is one task: once in the delete loop it makes its next pass as
\* soon as the database has answered the last one.
SpecRetentionLive ==
    RetentionSpecInit /\ [][RetentionNext]_vars /\ WF_vars(RetDeleteBatch)

OrchSpecInit ==
    /\ SignerInit
    /\ AuditInit
    /\ RetentionInitWith(SubsetsUpTo(PolicyRows, MaxPolicyRows),
                         {DefaultRetentionConfig})
    /\ OrchInit
    /\ IngestQuiet
    /\ DeceptionQuiet
    /\ SchemaQuiet
    /\ RegistryQuiet
    /\ SignalQuiet

SpecOrchestrator == OrchSpecInit /\ [][OrchNext]_vars

IngestSpecInit ==
    /\ SignerInit /\ AuditInit /\ RetentionQuiet /\ OrchQuiet /\ IngestInit
    /\ DeceptionQuiet
    /\ SchemaQuiet
    /\ RegistryQuiet
    /\ SignalQuiet

SpecIngest == IngestSpecInit /\ [][IngestNext]_vars

SpecIngestIso == IngestSpecInit /\ [][IngestIsoNext]_vars

SpecIngestReliable == IngestSpecInit /\ [][IngestReliableNext]_vars

DeceptionSpecInit ==
    /\ SignerInit /\ AuditInit /\ RetentionQuiet /\ OrchQuiet /\ IngestQuiet
    /\ DeceptionInit
    /\ SchemaQuiet
    /\ RegistryQuiet
    /\ SignalQuiet

SpecDeception == DeceptionSpecInit /\ [][DeceptionNext]_vars

SpecExpiry == DeceptionSpecInit /\ [][ExpiryNext]_vars

SchemaSpecInit ==
    /\ SignerInit /\ AuditInit /\ RetentionQuiet /\ OrchQuiet /\ IngestQuiet
    /\ DeceptionQuiet
    /\ SchemaInit
    /\ RegistryQuiet
    /\ SignalQuiet

SpecSchema == SchemaSpecInit /\ [][SchemaNext]_vars

RegistrySpecInit ==
    /\ SignerInit /\ AuditInit /\ RetentionQuiet /\ OrchQuiet /\ IngestQuiet
    /\ DeceptionInitWith({EmptyRegistry})
    /\ SchemaQuiet
    /\ RegistryInit
    /\ SignalQuiet

SpecRegistry == RegistrySpecInit /\ [][RegistryNext]_vars

LifecycleSpecInit == RegistrySpecInit /\ regDir \in LifecycleDirectories

SpecLifecycle == LifecycleSpecInit /\ [][LifecycleNext]_vars

SignalSpecInit ==
    /\ SignerInit /\ AuditInit /\ RetentionQuiet /\ OrchQuiet /\ IngestQuiet
    /\ DeceptionQuiet
    /\ SchemaQuiet
    /\ RegistryQuiet
    /\ SignalInit

SpecSignals == SignalSpecInit /\ [][SignalNext]_vars

\* C7: the counter starts at 0; the values handed out are 0, 1, 2, ... in the
\* order fetch_add hands them out (strictly increasing, no gap, no duplicate);
\* every returned signature is over a message whose 8-byte prefix is the
\* big-endian encoding of its own, distinct, sequence value; and sequence()
\* equals the number of sign calls that have taken a value (all calls made,
\* once no call is in progress).
SignerSequenceMonotonic ==
    /\ \A i \in 1..Len(issued) : issued[i] = i - 1
    /\ SignerSequence = Len(issued)
    /\ \A i, j \in 1..Len(signedOut) :
          i # j => /\ signedOut[i].seq # signedOut[j].seq
                   /\ SubSeq(signedOut[i].message, 1, 8)
                        # SubSeq(signedOut[j].message, 1, 8)
    /\ \A i \in 1..Len(signedOut) :
          /\ SubSeq(signedOut[i].message, 1, 8) = ToBeBytes(signedOut[i].seq)
          /\ signedOut[i].signature.message = signedOut[i].message
    /\ (\A t \in SignerThreads : signPc[t] = "idle")
          => SignerSequence = Len(signedOut)

\* Two threads have signed concurrently (the second took its value while the
\* first was still inside sign) and every call has returned.
SignerConcurrentWitness ==
    /\ Len(signedOut) >= 3
    /\ \A t \in SignerThreads : signPc[t] = "idle"
    /\ \E i \in 1..Len(signedOut) : signedOut[i].seq # i - 1
    /\ SignerSequence = Len(signedOut)

\* C4: with calls made one at a time on an initially empty log, the first
\* record has prev_audit_id NULL and chain hash SHA256(zero32 || payload hash);
\* every later record links to its predecessor's id and payload hash and has
\* chain hash SHA256(predecessor's chain hash || own payload hash).
AuditChainLinked ==
    /\ Len(auditLog) >= 1 =>
          /\ auditLog[1].prev_audit_id = NullId
          /\ auditLog[1].chain_hash_sha256
               = Sha256(Cat(Zero32, auditLog[1].payload_sha256))
    /\ \A k \in 1..(Len(auditLog) - 1) :
          /\ auditLog[k + 1].prev_audit_id = auditLog[k].audit_id
          /\ auditLog[k + 1].prev_payload_sha256 = auditLog[k].payload_sha256
          /\ auditLog[k + 1].chain_hash_sha256
               = Sha256(Cat(auditLog[k].chain_hash_sha256,
                            auditLog[k + 1].payload_sha256))

\* Three records written one at a time, by both callers, with different payloads.
AuditChainWitness ==
    /\ Len(auditLog) = 3
    /\ auditLog[1].payload_json # auditLog[2].payload_json
    /\ auditLog[3].prev_audit_id = auditLog[2].audit_id
    /\ \A c \in AuditCallers : audPc[c] = "idle"

\* C5: with concurrent callers the log stays one linear chain: at most one
\* record has prev_audit_id NULL and no two records share a prev_audit_id.
AuditSingleLinearChain ==
    \A i, j \in 1..Len(auditLog) :
        i # j => auditLog[i].prev_audit_id # auditLog[j].prev_audit_id

\* C6: no run of enforce, dry-run or live, whatever retention_policies holds,
\* issues a DELETE against immutable_audit_log, trust_verification_records,
\* signature_validation_events or retention_policies, or against a table
\* that carries the prevent_update_delete trigger.
RetentionNeverDeletesProtected ==
    \A i \in 1..Len(retDeletes) :
        /\ retDeletes[i].table \notin
              { <<"ransomeye", ".", "immutable_audit_log">>,
                <<"ransomeye", ".", "trust_verification_records">>,
                <<"ransomeye", ".", "signature_validation_events">>,
                <<"ransomeye", ".", "retention_policies">> }
        /\ retDeletes[i].table \notin retCatalog

\* A live run over two policy rows finished and deleted rows, in a database
\* that has trigger-protected tables.
RetentionLiveRunWitness ==
    /\ retPc = "done"
    /\ ~retDryRun
    /\ Len(retResults) = 2
    /\ Len(retDeletes) >= 2
    /\ retCatalog # {}

\* C1: Running is set, and the running flag becomes true, only after the seven
\* startup steps have each returned success, in order; the steps return in
\* startup's order; once a step has returned an error no later step runs
\* and Running is never set.
StartupGatesBeforeRunning ==
    LET steps == <<"validate_environment", "initialize_database",
                   "initialize_trust", "initialize_policy", "initialize_bus",
                   "initialize_services", "health_gate">>
    IN /\ Len(orchReturned) <= 7
       /\ \A i \in 1..Len(orchReturned) : orchReturned[i].step = steps[i]
       /\ (\/ current_state = "Running"
           \/ state
           \/ \E i \in 1..Len(orchStateLog) : orchStateLog[i] = "Running")
             => /\ Len(orchReturned) = 7
                /\ \A i \in 1..7 : orchReturned[i].ok
       /\ \A i \in 1..Len(orchReturned) :
             ~orchReturned[i].ok
                => /\ i = Len(orchReturned)
                   /\ current_state # "Running"
                   /\ ~state
                   /\ \A j \in 1..Len(orchStateLog) : orchStateLog[j] # "Running"

\* The orchestrator is Running with the flag set, the bus having been set up.
StartupRunningWitness ==
    /\ current_state = "Running"
    /\ state
    /\ bus_client = "some"
    /\ orchPc = "waiting"

\* C10: when a startup step has returned an error and the database is
\* reachable, the process exits with code 1 having written an error_events row
\* carrying the original error and an audit record orchestrator_fatal_error.
FatalStartupErrorRecorded ==
    (/\ orchPc = "exited"
     /\ dbUp
     /\ \E i \in 1..Len(orchReturned) : ~orchReturned[i].ok)
        => /\ exitCode = 1
           /\ \E i \in 1..Len(errorRows) : errorRows[i].error_message = orchErr
           /\ \E i \in 1..Len(auditLog) :
                 /\ auditLog[i].action = "orchestrator_fatal_error"
                 /\ auditLog[i].payload_json = orchErr

\* C2: a single POST /ingest/linux handled in isolation (no other request has
\* arrived on the connection): answered 200, exactly one raw_events row and
\* exactly one linux_agent_telemetry row of the request are committed;
\* answered 500, neither row is persisted.
LinuxIngestAtomic ==
    \A r \in Requests :
        (/\ reqKind[r] = "linux"
         /\ \A q \in Requests \ {r} : reqPc[q] = "idle")
            => LET raw == {x \in dbCommitted.raw_events : x.req = r}
                   typed == {x \in dbCommitted.linux_agent_telemetry : x.req = r}
               IN /\ reqStatus[r] = 200
                        => Cardinality(raw) = 1 /\ Cardinality(typed) = 1
                  /\ reqStatus[r] = 500 => raw = {} /\ typed = {}

\* C3 (its second clause): with requests running concurrently, a COMMIT or
\* ROLLBACK issued by one request leaves the uncommitted rows written by the
\* other requests as they were: it neither discards nor commits them.
TransactionOwnedByRequest ==
    [][\A r \in Requests :
          (/\ Len(reqLog'[r]) = Len(reqLog[r]) + 1
           /\ reqLog'[r][Len(reqLog'[r])] \in {"COMMIT", "ROLLBACK"})
             => /\ {x \in dbWorking.raw_events \ dbCommitted.raw_events :
                       x.req # r}
                   = {x \in dbWorking'.raw_events \ dbCommitted'.raw_events :
                       x.req # r}
                /\ {x \in dbWorking.linux_agent_telemetry
                            \ dbCommitted.linux_agent_telemetry : x.req # r}
                   = {x \in dbWorking'.linux_agent_telemetry
                            \ dbCommitted'.linux_agent_telemetry : x.req # r}
      ]_vars

\* C8: every request answered 200 carries the payload_hash that is the SHA-256
\* of the canonical bytes of its envelope, and a request whose payload_hash
\* differs is, once answered, not accepted and has no telemetry or raw row
\* persisted for it.
PayloadHashChecked ==
    \A r \in Requests :
        LET p == reqPayload[r]
            matches == p.payload_hash
                          = HexEncode(Sha256(CanonicalBytes(p.envelope)))
        IN /\ reqStatus[r] = 200 => matches
           /\ (reqPc[r] = "done" /\ ~matches)
                 => /\ reqStatus[r] # 200
                    /\ \A x \in dbCommitted.raw_events : x.req # r
                    /\ \A x \in dbCommitted.linux_agent_telemetry : x.req # r
                    /\ \A x \in dbCommitted.dpi_probe_telemetry : x.req # r

\* C9: every request answered 200 carries a signature that verifies under the
\* key of its signer_id over the sequence-prefixed payload hash, and a request
\* whose signature does not verify is, once answered, not accepted and has no
\* telemetry or raw row persisted for it.
SignatureChecked ==
    \A r \in Requests :
        LET p == reqPayload[r]
            key == IF p.signer_id = "hostA" THEN "signing_key" ELSE "no_key"
            sig == Base64Decode(p.signature)
            verifies ==
                /\ sig.ok
                /\ sig.bytes.key = key
                /\ \E seq \in 0..MaxSignCalls :
                      sig.bytes.message
                         = SignedMessage(seq, HexDecodeOrDefault(p.payload_hash))
        IN /\ reqStatus[r] = 200 => verifies
           /\ (reqPc[r] = "done" /\ ~verifies)
                 => /\ reqStatus[r] # 200
                    /\ \A x \in dbCommitted.raw_events : x.req # r
                    /\ \A x \in dbCommitted.linux_agent_telemetry : x.req # r
                    /\ \A x \in dbCommitted.dpi_probe_telemetry : x.req # r

\* C11: once a startup step has returned an error and the process has exited,
\* the orchestrator state is the terminal state Failed.
StartupErrorEntersFailed ==
    (/\ orchPc = "exited"
     /\ \E i \in 1..Len(orchReturned) : ~orchReturned[i].ok)
        => current_state = "Failed"

RunningWrittenOnlyAfterRunning ==
    /\ (\/ \E i \in 1..Len(healthRows) :
              healthRows[i].status_details = "running"
              \/ healthRows[i].state = "RUNNING"
        \/ \E i \in 1..Len(auditLog) : auditLog[i].payload_json = "RUNNING")
          => \E j \in 1..Len(orchStateLog) : orchStateLog[j] = "Running"
    /\ \A i \in 1..Len(auditLog) :
          auditLog[i].action = "orchestrator_db_initialized"
             => auditLog[i].payload_json = "STARTING"

\* Both RUNNING records are written, after the database-initialized record.
RunningWrittenWitness ==
    /\ \E i \in 1..Len(healthRows) : healthRows[i].status_details = "running"
    /\ \E i, j \in 1..Len(auditLog) :
          /\ i < j
          /\ auditLog[i].action = "orchestrator_db_initialized"
          /\ auditLog[j].action = "orchestrator_startup"
          /\ auditLog[j].payload_json = "RUNNING"


TeardownUpdatesDeployment ==
    (tdMode = "idle" /\ tdRet.mode = "explicit" /\ tdRet.result = "Ok")
    => LET id == tdRet.ids[1] IN
       /\ active_deployments[id].status = "TeardownComplete"
       /\ active_deployments[id] \notin get_active_deployments

\* C16: emergency_teardown calls teardown_asset for the given ids in the
\* given order, and for an id only when the teardown of every id before it
\* has ended Completed; at the first id whose teardown returns an error or
\* does not end Completed it returns SafeHalt, no later id is attempted
\* and the teardown records of the ids before it stay Completed; it returns
\* Ok only when every id was attempted and ended Completed, and then returns
\* all the ids.
EmergencyTeardownCompleted(i) ==
    /\ tdAttempted[i].teardown_id # 0
    /\ active_teardowns[tdAttempted[i].teardown_id].asset_id = tdArg[i]
    /\ active_teardowns[tdAttempted[i].teardown_id].status = "Completed"

EmergencyTeardownHaltsAtFirstFailure ==
    tdRet.mode = "emergency" =>
      LET n == Len(tdAttempted) IN
      /\ n <= Len(tdArg)
      /\ \A i \in 1..n : tdAttempted[i].asset_id = tdArg[i]
      /\ \A i \in 1..n :
            i < n => EmergencyTeardownCompleted(i)
      /\ tdMode = "emergency" =>
            /\ tdRet.result = "none"
            /\ n > 0 => EmergencyTeardownCompleted(n)
      /\ tdMode = "idle" =>
            /\ tdRet.result \in {"Ok", "SafeHalt"}
            /\ tdRet.result = "SafeHalt" =>
                  n > 0 /\ ~EmergencyTeardownCompleted(n)
            /\ tdRet.result = "Ok" =>
                  /\ n = Len(tdArg)
                  /\ \A i \in 1..n : EmergencyTeardownCompleted(i)
                  /\ tdRet.ids = tdArg

\* An emergency teardown of three ids has returned SafeHalt at the second,
\* which names no deployed asset: the first is torn down and the third,
\* a deployed asset, was never attempted.
EmergencyTeardownHaltWitness ==
    /\ tdMode = "idle"
    /\ tdRet.mode = "emergency"
    /\ tdRet.result = "SafeHalt"
    /\ tdStepFailed = {}
    /\ Len(tdArg) = 3
    /\ Len(tdAttempted) = 2
    /\ EmergencyTeardownCompleted(1)
    /\ tdArg[3] \in DOMAIN active_deployments
    /\ tdArg[3] # tdArg[1]

RetentionProtectedTargetAborts ==
    (/\ retPc # "idle"
     /\ \E r \in retPolicies :
           /\ r.retention_enabled
           /\ Trim(SplitDot(r.table_name)[1]) = <<"ransomeye">>
           /\ Len(SplitDot(r.table_name)) = 2
           /\ \/ Trim(SplitDot(r.table_name)[2]) \in
                    { <<"immutable_audit_log">>, <<"trust_verification_records">>,
                      <<"signature_validation_events">>, <<"retention_policies">> }
              \/ \E t \in retCatalog :
                    <<t[3]>> = Trim(SplitDot(r.table_name)[2]))
    => /\ retPc = "failed"
       /\ retError # ""
       /\ retDeletes = <<>>
       /\ retResults = <<>>
       /\ \A t \in ExistingTables : retRows[t] = <<3, 2, 1, 0>>
       /\ \A i \in 1..Len(auditLog) :
             auditLog[i].action \notin
                {"runtime_retention_dry_run", "runtime_retention_enforcement"}

\* A live run failed on a trigger-protected target although the row sorted
\* before it names a table with rows past their retention.
RetentionProtectedTargetWitness ==
    /\ retPc = "failed"
    /\ ~retDryRun
    /\ retError = "append_only"
    /\ \E r \in retPolicies :
          /\ r.retention_enabled
          /\ r.table_name = <<"public", ".", "events">>
          /\ RowsOlder(retRows[r.table_name], r.retention_days) > 0

\* C19: a run of enforce with dry_run = true issues no DELETE: the rows of
\* every table stay as they were, and every per-table result has
\* deleted_rows = 0 and batches_executed = 0 and carries in
\* dry_run_rows_older the number of the table's rows older than the cutoff.
RetentionDryRunReportsOnly ==
    (retPc # "idle" /\ retDryRun) =>
        /\ retDeletes = <<>>
        /\ retPc # "deleting"
        /\ \A t \in ExistingTables : retRows[t] = <<3, 2, 1, 0>>
        /\ \A i \in 1..Len(retResults) :
              /\ retResults[i].deleted_rows = 0
              /\ retResults[i].batches_executed = 0
              /\ retResults[i].dry_run_rows_older =
                    Cardinality({k \in 1..4 :
                        <<3, 2, 1, 0>>[k] > retResults[i].retention_days})

\* A dry run over two policy rows finished; it counted rows past their
\* retention in both tables and left them in place.
RetentionDryRunWitness ==
    /\ retPc = "done"
    /\ retDryRun
    /\ Len(retResults) = 2
    /\ \A i \in 1..2 : retResults[i].dry_run_rows_older > 0
    /\ retResults[1].dry_run_rows_older # retResults[2].dry_run_rows_older

\* C20: in a live run, for every table and every retention_days >= 0, 0
\* included: batches_executed never exceeds max_batches_per_table, no batch
\* deletes more than batch_size rows, so deleted_rows never exceeds
\* batch_size * max_batches_per_table, and every deleted row is older than
\* retention_days days.
RetentionLiveRunBounded ==
    ~retDryRun =>
        /\ \A i \in 1..Len(retDeletes) :
              /\ retDeletes[i].deleted = Len(retDeletes[i].rows)
              /\ retDeletes[i].deleted <= retCfg.batch_size
              /\ \A k \in 1..Len(retDeletes[i].rows) :
                    retDeletes[i].rows[k] > retDeletes[i].retention_days
        /\ \A res \in {retResults[i] : i \in 1..Len(retResults)} \cup {retCur} :
              /\ res.retention_days >= 0
              /\ res.batches_executed <= retCfg.max_batches_per_table
              /\ res.deleted_rows <= retCfg.batch_size * retCfg.max_batches_per_table
        /\ \A t \in ExistingTables :
              \E n \in 0..4 : retRows[t] = SubSeq(<<3, 2, 1, 0>>, n + 1, 4)
        /\ \A t \in ExistingTables : Len(retRows[t]) >= 1

\* A live run with retention_days = 0 finished at the batch limit: it ran
\* max_batches_per_table batches of batch_size rows each and left rows that
\* are past the cutoff behind.
RetentionLiveRunAtLimitWitness ==
    /\ retPc = "done"
    /\ ~retDryRun
    /\ \E i \in 1..Len(retResults) :
          /\ retResults[i].retention_days = 0
          /\ retResults[i].batches_executed = retCfg.max_batches_per_table
          /\ retResults[i].deleted_rows =
                retCfg.batch_size * retCfg.max_batches_per_table
          /\ RowsOlder(retRows[retResults[i].table], 0) > 0

\* C21: the delete loop of a live run ends for every table: it makes its
\* passes one after the other, stops right after the first pass that deleted
\* nothing or after exactly max_batches_per_table passes, and hands the table
\* back with a result; a table whose loop stopped at the cap with rows still
\* past the cutoff has deleted_rows = batch_size * max_batches_per_table and
\* keeps those rows.
RetentionBatchOffset(i) ==
    LET RECURSIVE Sum(_)
        Sum(k) == IF k = 0 THEN 0 ELSE retResults[k].batches_executed + Sum(k - 1)
    IN Sum(i - 1)

RetentionLoopStops ==
    /\ retPc = "deleting" =>
          /\ retCur.batches_executed < retCfg.max_batches_per_table
          /\ retCur.batches_executed > 0 =>
                retDeletes[Len(retDeletes)].deleted > 0
    /\ \A i \in 1..Len(retResults) :
          LET b == retResults[i].batches_executed
              off == RetentionBatchOffset(i)
          IN /\ b <= retCfg.max_batches_per_table
             /\ off + b <= Len(retDeletes)
             /\ \A k \in 1..b :
                   /\ retDeletes[off + k].table = retResults[i].table
                   /\ k < b => retDeletes[off + k].deleted > 0
             /\ b > 0 =>
                   \/ retDeletes[off + b].deleted = 0
                   \/ b = retCfg.max_batches_per_table
             /\ (/\ b = retCfg.max_batches_per_table
                 /\ RowsOlder(retRows[retResults[i].table],
                              retResults[i].retention_days) > 0)
                => retResults[i].deleted_rows =
                      retCfg.batch_size * retCfg.max_batches_per_table

RetentionValidatesBeforeDeleting ==
    (/\ ~retDryRun
     /\ retPc = "failed"
     /\ retError = "time_column")
    => /\ retDeletes = <<>>
       /\ \A t \in DOMAIN retRows : retRows[t] = <<3, 2, 1, 0>>

\* C23: on both routes a request with an empty signature, payload_hash or
\* signer_id, or whose envelope lacks event_id, timestamp, component_id or
\* data, or whose timestamp is not RFC-3339, is answered 400 and no database
\* statement is executed for it.
MalformedRequest(p) ==
    \/ p.signature.encoding = "empty"
    \/ p.payload_hash.encoding = "empty"
    \/ p.signer_id = ""
    \/ p.envelope.event_id = Missing
    \/ p.envelope.timestamp = Missing
    \/ p.envelope.component_id = Missing
    \/ p.envelope.data = Missing
    \/ p.envelope.timestamp \notin Rfc3339Strings

MalformedRequestRejectedUntouched ==
    \A r \in Requests :
        (reqKind[r] # "none" /\ MalformedRequest(reqPayload[r]))
        => /\ reqPc[r] = "done"
           /\ reqStatus[r] = 400
           /\ reqLog[r] = <<>>

\* A linux request without data and a dpi request with an unparsable
\* timestamp were both answered.
MalformedRequestWitness ==
    \E r, q \in Requests :
        /\ reqKind[r] = "linux"
        /\ reqPayload[r].envelope.data = Missing
        /\ reqStatus[r] = 400
        /\ reqKind[q] = "dpi"
        /\ reqPayload[q].envelope.timestamp = "yesterday"
        /\ reqStatus[q] = 400

\* C24: a 200 answer to POST /ingest/dpi implies that exactly one raw_events
\* row and exactly one dpi_probe_telemetry row of the event are stored; a
\* failed raw_events insert never gives a 200 with only the typed row stored.
DpiAcceptedHasBothRows ==
    \A r \in Requests :
        (reqKind[r] = "dpi" /\ reqStatus[r] = 200)
        => /\ Cardinality({e \in dbWorking.raw_events : e.req = r}) = 1
           /\ Cardinality({t \in dbWorking.dpi_probe_telemetry : t.req = r}) = 1

\* C25: for every accepted event the payload_sha256 of its raw_events row,
\* the payload_sha256 of its typed telemetry row and the payload_hash of the
\* Signed Event are the same hash value.
TypedRows(r) ==
    {t \in dbWorking.linux_agent_telemetry \cup dbWorking.dpi_probe_telemetry :
        t.req = r}

StoredHashesAgree ==
    \A r \in Requests :
        reqStatus[r] = 200 =>
            \A e \in {x \in dbWorking.raw_events : x.req = r}, t \in TypedRows(r) :
                /\ e.payload_sha256 = t.payload_sha256
                /\ t.payload_sha256 = HexDecodeOrDefault(reqPayload[r].payload_hash)

\* C26: within one request of either kind the raw_events insert is issued
\* before the typed telemetry insert, both are issued before the COMMIT that
\* makes them visible, and no 200 is returned before that COMMIT.
StatementPositions(r, stmts) == {i \in 1..Len(reqLog[r]) : reqLog[r][i] \in stmts}

TypedInserts == {"INSERT linux_agent_telemetry", "INSERT dpi_probe_telemetry"}

RawThenTypedThenCommit ==
    \A r \in Requests :
        LET raw == StatementPositions(r, {"INSERT raw_events"})
            typed == StatementPositions(r, TypedInserts)
            commit == StatementPositions(r, {"COMMIT"})
        IN /\ \A t \in typed : \E e \in raw : e < t
           /\ \A c \in commit : (\E e \in raw : e < c) /\ (\E t \in typed : t < c)
           /\ reqStatus[r] = 200 => commit # {}

\* C27: when the auxiliary UPDATE of the typed row fails, the handler still
\* issues COMMIT and answers 200 with the raw_events row and the typed row
\* (required columns) persisted; when the required typed INSERT fails, the
\* transaction is rolled back and 500 is answered.
LinuxTypedInsertFailureRollsBack ==
    \A r \in Requests :
        (/\ reqPc[r] = "done"
         /\ StatementPositions(r, {"INSERT linux_agent_telemetry"}) # {}
         /\ StatementPositions(r, {"UPDATE linux_agent_telemetry"}) = {})
        => /\ reqLog[r][Len(reqLog[r])] = "ROLLBACK"
           /\ reqStatus[r] = 500

LinuxUpdateFailureStillPersists ==
    /\ LinuxTypedInsertFailureRollsBack
    /\ \A r \in Requests :
        (/\ reqKind[r] = "linux"
         /\ reqStatus[r] = 200
         /\ \A t \in dbWorking.linux_agent_telemetry :
                t.req = r => ~t.optional_fields)
        => /\ \E e \in dbCommitted.raw_events : e.req = r
           /\ \E t \in dbCommitted.linux_agent_telemetry : t.req = r

\* C28: apply_authoritative_schema_from_env executes the full authoritative
\* file only on a database without the canonical type; when component_type
\* is present no type-creating statement is executed, whichever tables are
\* missing.
NoTypeCreationOnceTypeExists ==
    \A i \in DOMAIN schHistory :
        (/\ schHistory[i].op = "apply"
         /\ "component_type" \in schHistory[i].types_before)
        => /\ schHistory[i].path # "first_run"
           /\ \A k \in DOMAIN schHistory[i].executed :
                  schHistory[i].executed[k].kind # "create_type"

\* C29: with the canonical type and the components table present, apply sends
\* the DDL blocks of exactly the missing required tables and nothing else;
\* after it succeeds every required table exists, the table check of
\* validate_schema_contract passes and a second apply sends no DDL.
TableDdlKinds == {"create_table", "create_table_expr", "comment", "index", "alter"}

BlocksInFile(file, tables) ==
    {file[k] : k \in {j \in DOMAIN file :
                         file[j].kind \in TableDdlKinds /\ file[j].name \in tables}}

TablesAfterCall(i) ==
    IF i < Len(schHistory) THEN schHistory[i + 1].tables_before ELSE schTables

AssetPassesEveryCheck(a) ==
    /\ a # Unparsable
    /\ a.interaction_types # {}
    /\ a.max_lifetime > 0
    /\ a.asset_type \in {"decoy_host", "decoy_service", "credential_lure",
                         "filesystem_lure"}
    /\ a.asset_type \notin {"traffic_interceptor", "proxy_service",
                            "production_mirror"}
    /\ a.signature_hash =
          HexEncode(Sha256(<<a.asset_id, a.asset_type, a.interaction_types,
                             a.teardown_steps, a.max_lifetime>>))
    /\ a.signature = Base64Encode(Ed25519Sign(DeceptionKey, a.signature_hash))

YamlEntries(entries) ==
    {entries[i] : i \in {j \in DOMAIN entries :
                            entries[j].extension \in {"yaml", "yml"}}}

RegistryHoldsOnlyVerifiedAssets ==
    /\ \A id \in DOMAIN assets :
          /\ assets[id].asset_id = id
          /\ AssetPassesEveryCheck(assets[id])
    /\ (regCalls > 0 /\ regRet.ok) =>
          LET good == {f \in YamlEntries(regRet.entries) :
                          AssetPassesEveryCheck(f.content)}
          IN /\ DOMAIN assets = {f.content.asset_id : f \in good}
             /\ \A id \in DOMAIN assets : \E f \in good : assets[id] = f.content
             /\ regRet.count = Cardinality(good)

\* A reload read a forged file, a file that is not YAML and a good file, in
\* that order, and the registry holds the good file's asset alone.
RegistrySkipsBadFileWitness ==
    /\ regRet.ok
    /\ Len(regRet.entries) = 3
    /\ regRet.entries[1].name = "forged"
    /\ regRet.entries[2].name = "broken"
    /\ regRet.entries[3].name = "a1"
    /\ DOMAIN assets = {"a1"}
    /\ regRet.count = 1

\* ----------------------------------------------------------------------
\* C32  Orchestrator::shutdown sets the state to ShuttingDown before any
\* step, takes the steps services, bus, policy, trust in that order, and
\* clears the running flag only after the last of them: the flag is set
\* while shutdown is at any of its steps and is clear once it has returned.
ShutdownStepsInOrder ==
    <<"shutdown_services", "shutdown_bus", "shutdown_policy", "shutdown_trust">>

InShutdown ==
    orchPc \in {"shutdown_services", "shutdown_bus", "shutdown_policy",
                "shutdown_trust", "shutdown_clear"}

ShutdownReturned == orchPc \in {"run_ok", "exited"} /\ orchShutdownLog # <<>>

ShutdownReverseOrderThenClear ==
    /\ Len(orchShutdownLog) <= 4
    /\ orchShutdownLog = SubSeq(ShutdownStepsInOrder, 1, Len(orchShutdownLog))
    /\ InShutdown =>
          /\ current_state = "ShuttingDown"
          /\ orchStateLog[Len(orchStateLog)] = "ShuttingDown"
          /\ state
          /\ orchPc \in {"shutdown_services", "shutdown_bus", "shutdown_policy",
                         "shutdown_trust"}
                => orchPc = ShutdownStepsInOrder[Len(orchShutdownLog) + 1]
          /\ orchPc = "shutdown_clear" => orchShutdownLog = ShutdownStepsInOrder
    /\ ShutdownReturned =>
          /\ orchShutdownLog = ShutdownStepsInOrder
          /\ current_state = "ShuttingDown"
          /\ ~state

ShutdownReturnedWitness ==
    /\ ShutdownReturned
    /\ orchShutdownLog = ShutdownStepsInOrder
    /\ ~state

\* ----------------------------------------------------------------------
\* C35  If Orchestrator::startup returns an error, the state is not
\* Running and the running flag is clear; in particular a failed final
\* RUNNING health or audit write leaves the orchestrator not marked running.
StartupReturnedError == orchErr \notin {"", "ShutdownFailed"}

FailedStartupNotRunning ==
    StartupReturnedError => current_state # "Running" /\ ~state

\* ----------------------------------------------------------------------
\* C34  Every path of handle_linux_ingest on which BEGIN succeeded issues
\* COMMIT or ROLLBACK before the handler returns, so a request that has
\* returned leaves no transaction block open on the shared connection.
BeganTransaction(r) ==
    /\ reqKind[r] = "linux"
    /\ \E i \in 1..Len(reqLog[r]) : reqLog[r][i] = "BEGIN" /\ i < Len(reqLog[r])

EndedTransaction(r) ==
    \E i \in 1..Len(reqLog[r]) : reqLog[r][i] \in {"COMMIT", "ROLLBACK"}

BeginAlwaysEnded ==
    \A r \in Requests :
        reqPc[r] = "done" /\ BeganTransaction(r) =>
            /\ EndedTransaction(r)
            /\ (\A q \in Requests : reqPc[q] \in {"idle", "done"}) => txn = "idle"

\* ----------------------------------------------------------------------
\* C36  After any interleaving of ingest requests the agents table holds
\* at most one row per (host_hostname, agent_type): concurrent first
\* requests from the same new agent resolve to the same agent_id.
OneAgentRowPerHostAndType ==
    /\ \A a, b \in dbWorking.agents :
          a.host_hostname = b.host_hostname /\ a.agent_type = b.agent_type
              => a.agent_id = b.agent_id
    /\ \A r, q \in Requests :
          /\ reqStatus[r] = 200 /\ reqStatus[q] = 200
          /\ reqKind[r] = reqKind[q]
          /\ reqPayload[r].envelope.component_id = reqPayload[q].envelope.component_id
          => reqAgent[r] = reqAgent[q]

\* ----------------------------------------------------------------------
\* C37  A request answered with 400 leaves the database unchanged: it has
\* sent no statement that inserts or touches an agents row or writes a
\* raw_events or telemetry row, also when it is rejected because event_id
\* is not a valid UUID.
BadRequestWritesNothing ==
    \A r \in Requests :
        reqStatus[r] = 400 =>
            /\ \A i \in 1..Len(reqLog[r]) : reqLog[r][i] = "SELECT agents"
            /\ \A a \in dbWorking.agents : a.agent_id # r /\ a.last_seen_at # r

\* ----------------------------------------------------------------------
\* C33  check_expired changes to Expired exactly the deployments that are
\* Active with expires_at earlier than now, returns exactly their ids and
\* leaves every other record and every other field as it was;
\* teardown_expired then calls teardown_asset once for each returned id; a
\* record that is Expired is not returned again, and a record goes from
\* Expired back to Active only when deploy_asset stores a new deployment.
IsCheckExpiredStep == tdCalls' = tdCalls + 1 /\ tdMode' = "expired"

DueDeployments ==
    { id \in DOMAIN active_deployments :
        /\ active_deployments[id].status = "Active"
        /\ active_deployments[id].expires_at < decNow }

CheckExpiredMarksAndReturnsDue ==
    IsCheckExpiredStep =>
        /\ DOMAIN active_deployments' = DOMAIN active_deployments
        /\ \A id \in DOMAIN active_deployments :
              active_deployments'[id] =
                  IF id \in DueDeployments
                  THEN [active_deployments[id] EXCEPT !.status = "Expired"]
                  ELSE active_deployments[id]
        /\ Len(tdArg') = Cardinality(DueDeployments)
        /\ {tdArg'[i] : i \in 1..Len(tdArg')} = DueDeployments

TeardownForEachReturned ==
    tdRet.mode = "expired" /\ tdRet.result = "Ok" =>
        [i \in 1..Len(tdAttempted) |-> tdAttempted[i].asset_id] = tdArg

ExpiredRecordOnlyRedeployed ==
    \A id \in DOMAIN active_deployments :
        active_deployments[id].status = "Expired" =>
            \/ active_deployments'[id] = active_deployments[id]
            \/ /\ depRet'.path = "deployed" /\ depRet'.asset_id = id
               /\ depCalls' = depCalls
               /\ active_deployments'[id] = depRet'.state

CheckExpiredFrame ==
    [][/\ CheckExpiredMarksAndReturnsDue
       /\ TeardownForEachReturned'
       /\ ExpiredRecordOnlyRedeployed]_vars

\* a1 has expired and been handed to teardown while a2, deployed and not
\* yet due, is as it was stored.
CheckExpiredLeavesOtherWitness ==
    /\ tdRet.mode = "expired" /\ tdRet.result = "Ok"
    /\ tdArg = <<"a1">>
    /\ "a2" \in DOMAIN active_deployments
    /\ active_deployments["a1"].status = "Expired"
    /\ active_deployments["a2"].status = "Active"

\* The claim as stated: with the above, no id that a check_expired call
\* has returned is returned by a later call.
CheckExpiredNeverReturnsTwice ==
    [][/\ CheckExpiredMarksAndReturnsDue
       /\ TeardownForEachReturned'
       /\ IsCheckExpiredStep =>
             \A i \in 1..Len(tdArg') : tdArg'[i] \notin expiredReturned]_vars

\* ----------------------------------------------------------------------
\* C38  When two deploy_asset(id) calls for the same asset that is not yet
\* deployed run concurrently, the type-specific deployment is performed
\* once: the two callers never both hold a deployment of the same asset
\* that they are about to store.
ConcurrentDeployPerformedOnce ==
    \A c, d \in Deployers :
        c # d /\ depPc[c] = "store" /\ depPc[d] = "store"
            => depArg[c].asset_id # depArg[d].asset_id

\* ----------------------------------------------------------------------
\* C40  After any sequence of deploy_asset, reload_assets, check_expired
\* and teardown calls, every deployment record that has not been torn down
\* refers to an asset id present in the registry, and teardown_asset on a
\* deployed asset does not fail with AssetNotFound.
TornDown(id) ==
    \E i \in 1..Len(active_teardowns) :
        /\ active_teardowns[i].asset_id = id
        /\ active_teardowns[i].status = "Completed"

DeployedAssetsStayRegistered ==
    /\ \A id \in DOMAIN active_deployments :
          ~TornDown(id) => id \in DOMAIN assets
    /\ tdRet.mode = "explicit" /\ tdRet.result = "AssetNotFound"
          => tdArg[1] \notin DOMAIN active_deployments

\* ----------------------------------------------------------------------
\* C31  DeceptionSignal::validate rejects every signal whose
\* confidence_score is below 0.9, whose hash is empty or whose signature is
\* empty; generate_signal fails when the interaction type is not among the
\* asset's trigger interaction types, and every signal it returns has
\* confidence_score >= 0.9 and an interaction_type in that set.
AtLeastThreshold(x) == ~x.nan /\ x.hundredths >= 90

SignalValidationAndGeneration ==
    /\ sigPc \in {"validated", "verified"} =>
          ((\/ ~sigSignal.confidence_score.nan
                  /\ sigSignal.confidence_score.hundredths < 90
            \/ sigSignal.hash.encoding = "empty"
            \/ sigSignal.signature.encoding = "empty")
              => sigChecks.validate = "err")
    /\ sigPc # "idle" /\ sigCall.interaction_type \notin sigCall.asset.interaction_types
          => sigPc = "failed"
    /\ sigPc = "generated" =>
          /\ AtLeastThreshold(sigSignal.confidence_score)
          /\ sigSignal.interaction_type = sigCall.interaction_type
          /\ sigSignal.interaction_type \in sigCall.asset.interaction_types

\* A signal whose hash was emptied on the way has been rejected by
\* validate, though its confidence is that of a generated signal.
SignalEmptyHashRejectedWitness ==
    /\ sigPc = "validated"
    /\ sigAltered = "hash"
    /\ AtLeastThreshold(sigSignal.confidence_score)
    /\ sigCall.asset.min_confidence = F64(50)
    /\ sigChecks.validate = "err"

\* ----------------------------------------------------------------------
\* C39  Every signal returned by generate_signal passes verify_signal under
\* the public key matching the generator's private key.
GeneratedSignalVerifies ==
    sigPc = "verified" /\ sigAltered = "none" => sigChecks.verify = "ok"

====
